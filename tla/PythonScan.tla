----------------------------- MODULE PythonScan -----------------------------
(***************************************************************************)
(* Scans without the engine: TrivyScanner.scan and GrypeScanner.scan under *)
(* FallbackScanner, each running its binary through run_capture, which     *)
(* reaps the process on every way out.  Calls are concurrent and may be    *)
(* cancelled, more than once, wherever they wait.                          *)
(***************************************************************************)
EXTENDS Naturals, FiniteSets

CONSTANTS Calls, Dirs, MaxCancels, None

\* A scan as far as it decides what follows: it is verified, the scanner is at
\* fault (is_scanner_fault), or it states a fact about the image.
Kinds == {"ok", "fault", "fact"}

VARIABLES
  at,       \* where each call is
  slot,     \* the cache directory it holds
  proc,     \* its process: "none", "alive", "signalled", "killed" or "ended"
  leaving,  \* why run_capture is on its way out
  answer,   \* what scan returned: who answered and how
  cancels,  \* bound: how often a call was cancelled
  ready,    \* _secondary_ready
  lock      \* the holder of _secondary_lock
vars == <<at, slot, proc, leaving, answer, cancels, ready, lock>>

PythonScanAssumption == None \notin Calls /\ None \notin Dirs /\ MaxCancels \in Nat

Init ==
  /\ at = [c \in Calls |-> "new"]
  /\ slot = [c \in Calls |-> None]
  /\ proc = [c \in Calls |-> "none"]
  /\ leaving = [c \in Calls |-> None]
  /\ answer = [c \in Calls |-> None]
  /\ cancels = [c \in Calls |-> 0]
  /\ ready = FALSE /\ lock = None

Goto(c, l) == at' = [at EXCEPT ![c] = l]
Answers(c, tool, kind) == answer' = [answer EXCEPT ![c] = <<tool, kind>>]

(***************************************************************************)
(* trivy: a directory of the pool, then the process.                       *)
(***************************************************************************)
\* The policy and the platform are looked at before anything is taken.
Call(c) ==
  /\ at[c] = "new"
  /\ \/ Goto(c, "acquire") /\ UNCHANGED answer
     \/ Goto(c, "done") /\ Answers(c, "trivy", "fact")
  /\ UNCHANGED <<slot, proc, leaving, cancels, ready, lock>>

Acquire(c) ==
  /\ at[c] = "acquire"
  /\ \E d \in Dirs \ {slot[o] : o \in Calls} : slot' = [slot EXCEPT ![c] = d]
  /\ Goto(c, "trivy")
  /\ UNCHANGED <<proc, leaving, answer, cancels, ready, lock>>

(***************************************************************************)
(* run_capture, of "trivy", of the refresh of grype and of "grype".        *)
(***************************************************************************)
Tools == {"trivy", "refresh", "grype"}
Spawn(c) ==
  /\ at[c] \in Tools /\ proc[c] = "none"
  /\ proc' = [proc EXCEPT ![c] = "alive"]
  /\ UNCHANGED <<at, slot, leaving, answer, cancels, ready, lock>>

Exit(c) ==
  /\ proc[c] \in {"alive", "signalled", "killed"}
  /\ proc' = [proc EXCEPT ![c] = "ended"]
  /\ UNCHANGED <<at, slot, leaving, answer, cancels, ready, lock>>

\* The timeout, or more output than the limit: out through _reap.
GiveUp(c) ==
  /\ at[c] \in Tools /\ proc[c] = "alive" /\ leaving[c] = None
  /\ leaving' = [leaving EXCEPT ![c] = "fault"]
  /\ proc' = [proc EXCEPT ![c] = "signalled"]
  /\ UNCHANGED <<at, slot, answer, cancels, ready, lock>>

\* _reap waited long enough.
Kill(c) ==
  /\ leaving[c] # None /\ proc[c] = "signalled"
  /\ proc' = [proc EXCEPT ![c] = "killed"]
  /\ UNCHANGED <<at, slot, leaving, answer, cancels, ready, lock>>

Reaped(c) == proc[c] = "ended"

(***************************************************************************)
(* What follows a process that is reaped.  Returned(c, kind): scan of the  *)
(* first scanner returns, its directory goes back to the pool.             *)
(***************************************************************************)
Returned(c, kind) ==
  /\ slot' = [slot EXCEPT ![c] = None]
  /\ IF kind = "fault"
     THEN Goto(c, "fallback") /\ UNCHANGED answer
     ELSE Goto(c, "done") /\ Answers(c, "trivy", kind)

Clear(c) ==
  /\ proc' = [proc EXCEPT ![c] = "none"]
  /\ leaving' = [leaving EXCEPT ![c] = None]

TrivyEnds(c) ==
  /\ at[c] = "trivy" /\ Reaped(c) /\ leaving[c] # "cancel"
  /\ \E kind \in IF leaving[c] = "fault" THEN {"fault"} ELSE Kinds : Returned(c, kind)
  /\ Clear(c)
  /\ UNCHANGED <<cancels, ready, lock>>

\* No executable: nothing is spawned.
TrivyMissing(c) ==
  /\ at[c] = "trivy" /\ proc[c] = "none"
  /\ Returned(c, "fault")
  /\ UNCHANGED <<proc, leaving, cancels, ready, lock>>

\* FallbackScanner.scan: is there a second scanner, and is it prepared?
NoSecond(c) ==
  /\ at[c] = "fallback"
  /\ Goto(c, "done") /\ Answers(c, "trivy", "fault")
  /\ UNCHANGED <<slot, proc, leaving, cancels, ready, lock>>

Second(c) ==
  /\ at[c] = "fallback"
  /\ Goto(c, IF ready THEN "grype" ELSE "lock")
  /\ UNCHANGED <<slot, proc, leaving, answer, cancels, ready, lock>>

LockUnchecked(c) ==
  /\ at[c] = "lock" /\ lock = None
  /\ Goto(c, "refresh") /\ lock' = c
  /\ UNCHANGED <<slot, proc, leaving, answer, cancels, ready>>
Lock(c) ==
  /\ at[c] = "lock" /\ lock = None
  /\ IF ready THEN Goto(c, "grype") /\ UNCHANGED lock
              ELSE Goto(c, "refresh") /\ lock' = c
  /\ UNCHANGED <<slot, proc, leaving, answer, cancels, ready>>

\* Whether the refresh succeeded or not, it is not tried again.
RefreshEnds(c) ==
  /\ at[c] = "refresh" /\ Reaped(c) /\ leaving[c] # "cancel"
  /\ ready' = TRUE /\ lock' = None
  /\ Goto(c, "grype") /\ Clear(c)
  /\ UNCHANGED <<slot, answer, cancels>>

\* A second failure is not reported: the first scanner should have measured.
GrypeEnds(c) ==
  /\ at[c] = "grype" /\ Reaped(c) /\ leaving[c] # "cancel"
  /\ Goto(c, "done") /\ Clear(c)
  /\ \/ Answers(c, "trivy", "fault")
     \/ leaving[c] = None /\ Answers(c, "grype", "ok")
  /\ UNCHANGED <<slot, cancels, ready, lock>>

(***************************************************************************)
(* Cancellation.  In run_capture it goes out through _reap; a second one,  *)
(* or one that meets _reap at work, makes it kill at once; one that finds  *)
(* the process killed is suppressed and only ends the wait for it.         *)
(***************************************************************************)
Unwound(c) ==
  /\ Goto(c, "done") /\ answer' = [answer EXCEPT ![c] = <<"nobody", "cancelled">>]
  /\ slot' = [slot EXCEPT ![c] = None]
  /\ lock' = IF lock = c THEN None ELSE lock

CancelWaiting(c) ==
  /\ at[c] \in {"acquire", "lock"}
  /\ Unwound(c)
  /\ UNCHANGED <<proc, leaving, ready>>

CancelRunning(c) ==
  /\ at[c] \in Tools /\ proc[c] \in {"alive", "ended"} /\ leaving[c] = None
  /\ leaving' = [leaving EXCEPT ![c] = "cancel"]
  /\ proc' = [proc EXCEPT ![c] = IF @ = "alive" THEN "signalled" ELSE @]
  /\ UNCHANGED <<at, slot, answer, ready, lock>>

CancelReapingLeaves(c) ==
  /\ leaving[c] # None /\ proc[c] = "signalled"
  /\ leaving' = [leaving EXCEPT ![c] = None]
  /\ Unwound(c)
  /\ UNCHANGED <<proc, ready>>
CancelReaping(c) ==
  /\ leaving[c] # None /\ proc[c] = "signalled"
  /\ proc' = [proc EXCEPT ![c] = "killed"]
  /\ UNCHANGED <<at, slot, leaving, answer, ready, lock>>

\* Out with a process that is killed and not yet collected.
CancelKilled(c) ==
  /\ leaving[c] # None /\ proc[c] = "killed"
  /\ \/ leaving[c] = "cancel" /\ Unwound(c) /\ UNCHANGED ready
     \/ leaving[c] = "fault" /\ at[c] = "trivy"
        /\ Returned(c, "fault")
        /\ UNCHANGED <<ready, lock>>
     \/ leaving[c] = "fault" /\ at[c] = "refresh"
        /\ Goto(c, "grype") /\ ready' = TRUE /\ lock' = None
        /\ UNCHANGED <<slot, answer>>
     \/ leaving[c] = "fault" /\ at[c] = "grype"
        /\ Goto(c, "done") /\ Answers(c, "trivy", "fault")
        /\ UNCHANGED <<slot, ready, lock>>
  /\ Clear(c)

Cancel(c) ==
  /\ cancels[c] < MaxCancels
  /\ cancels' = [cancels EXCEPT ![c] = @ + 1]
  /\ \/ CancelWaiting(c) \/ CancelRunning(c) \/ CancelReaping(c) \/ CancelKilled(c)

\* The cancelled call leaves when its process is reaped.
Unwind(c) ==
  /\ at[c] \in Tools /\ Reaped(c) /\ leaving[c] = "cancel"
  /\ Unwound(c) /\ Clear(c)
  /\ UNCHANGED <<cancels, ready>>

\* A process that was sent SIGKILL is collected.
Collected(c) == proc[c] = "killed" /\ Exit(c)
Step(c) ==
  \/ Call(c) \/ Acquire(c) \/ Spawn(c) \/ GiveUp(c) \/ Kill(c)
  \/ TrivyEnds(c) \/ Second(c) \/ Lock(c) \/ RefreshEnds(c) \/ GrypeEnds(c) \/ Unwind(c)
Next == \E c \in Calls : Step(c) \/ Exit(c) \/ TrivyMissing(c) \/ NoSecond(c) \/ Cancel(c)

Fairness == \A c \in Calls : WF_vars(Step(c)) /\ WF_vars(Collected(c))
Spec == Init /\ [][Next]_vars /\ Fairness
-----------------------------------------------------------------------------
TypeOK ==
  /\ at \in [Calls -> {"new", "acquire", "fallback", "lock", "done"} \cup Tools]
  /\ slot \in [Calls -> Dirs \cup {None}]
  /\ proc \in [Calls -> {"none", "alive", "signalled", "killed", "ended"}]
  /\ leaving \in [Calls -> {None, "fault", "cancel"}]
  /\ answer \in [Calls -> ({"trivy", "grype"} \X Kinds) \cup {<<"nobody", "cancelled">>, None}]
  /\ cancels \in [Calls -> 0..MaxCancels]
  /\ ready \in BOOLEAN /\ lock \in Calls \cup {None}

(***************************************************************************)
(* run_capture leaves no process behind: a call that is past it, on any    *)
(* way out and however often it was cancelled, has a process that ended or *)
(* was sent SIGKILL, and a directory is never shared by two that were not. *)
(***************************************************************************)
NoProcessLeft ==
  \A c \in Calls :
    /\ proc[c] \in {"alive", "signalled"} => at[c] \in Tools
    /\ at[c] = "trivy" => slot[c] # None
    /\ \A o \in Calls \ {c} : slot[c] # None => slot[c] # slot[o]

(***************************************************************************)
(* The second scanner is prepared once, whatever fails at the same time    *)
(* and whoever is cancelled while preparing it: refreshes exclude each     *)
(* other, none follows one that ended, and no scan precedes it.            *)
(***************************************************************************)
SecondaryPreparedOnce ==
  \A c \in Calls :
    /\ at[c] = "refresh" => ~ready /\ lock = c
    /\ at[c] = "grype" => ready
    /\ lock = c => at[c] = "refresh"

(***************************************************************************)
(* A call ends: the grace of _reap, the timeout and SIGKILL see to it.     *)
(***************************************************************************)
Settled == \A c \in Calls : at[c] = "done"
EveryCallEnds == []<>Settled
=============================================================================
