-------------------------------- MODULE Intel --------------------------------
(***************************************************************************)
(* Threat intelligence and lifecycle data, as several candidates of a run  *)
(* ask for it at once: the catalogues that are loaded once (KEV in         *)
(* threat_intel/client.py, Exploit-DB in exploitdb/client.py, a product of *)
(* endoflife/checker.py) and the scores and records that are looked up by  *)
(* finding and shared while in flight (EPSS; OSV does so over SingleFlight *)
(* and differs in how it is cancelled).                                    *)
(*                                                                         *)
(* An asker is one enrichment, which the run's time budget may cancel.     *)
(***************************************************************************)
EXTENDS Integers, FiniteSets

CONSTANTS
  Askers,      \* the enrichments of one run
  Findings,    \* CVEs, numbers
  Wants,       \* per asker, the findings it asks about
  Scored,      \* findings that FIRST has a usable score for
  Catalogues,  \* those loaded as a whole
  Forgetful,   \* those that do not remember a failure
  NoAsker

VARIABLES
  memo,      \* per catalogue: "none", "listed" (a real answer) or "empty"
  available, \* per catalogue: "none", "yes" or "no"
  lock,      \* per catalogue: the asker that loads it, or NoAsker
  stored,    \* what the persistent cache holds: catalogues and findings
  asks,      \* per catalogue and asker: where it stands
  says,      \* per catalogue and asker: the answer it got
  pending,   \* _epss_pending: per finding the owner of its future
  future,    \* per owner and finding: "none", "open", "set" or "cancelled"
  status,    \* _epss_status
  scores,    \* _epss_scores
  looks,     \* per asker: where its EPSS lookup stands
  waits,     \* per asker: the futures it still waits for, as <<owner, finding>>
  ended      \* per asker: "", "done", "timeout" or, by another asker, "cancelled"

catVars  == <<memo, available, lock, asks, says>>
epssVars == <<pending, future, status, scores, looks, waits>>
vars == <<catVars, epssVars, stored, ended>>

Init ==
  /\ memo = [k \in Catalogues |-> "none"] /\ available = [k \in Catalogues |-> "none"]
  /\ lock = [k \in Catalogues |-> NoAsker]
  /\ stored = [lists |-> {}, found |-> {}, absent |-> {}]
  /\ asks = [k \in Catalogues |-> [a \in Askers |-> "start"]]
  /\ says = [k \in Catalogues |-> [a \in Askers |-> "unasked"]]
  /\ pending = [c \in Findings |-> NoAsker]
  /\ future = [a \in Askers |-> [c \in Findings |-> "none"]]
  /\ status = [c \in Findings |-> "none"] /\ scores = {}
  /\ looks = [a \in Askers |-> "start"] /\ waits = [a \in Askers |-> {}]
  /\ ended = [a \in Askers |-> ""]

Live(a) == ended[a] = ""
\* gather leaves the lookups beside a cancelled one running; a time budget does not.
Loading(a) == ended[a] \in {"", "cancelled"}

(***************************************************************************)
(* A catalogue: the memo, then the lock and the memo again, then the       *)
(* persistent cache, then the download.  An answer that is too small to be *)
(* the catalogue counts as none.                                           *)
(***************************************************************************)
Answer(k) == IF available[k] = "yes" THEN "answers" ELSE "unknown"

ReadMemo(k, a) ==
  /\ Loading(a) /\ asks[k][a] \in {"start", "locked"} /\ memo[k] # "none"
  /\ says' = [says EXCEPT ![k][a] = Answer(k)]
  /\ asks' = [asks EXCEPT ![k][a] = "done"]
  /\ lock' = IF asks[k][a] = "locked" THEN [lock EXCEPT ![k] = NoAsker] ELSE lock
  /\ UNCHANGED <<memo, available, epssVars, stored, ended>>

Lock(k, a) ==
  /\ Loading(a) /\ asks[k][a] = "start" /\ memo[k] = "none" /\ lock[k] = NoAsker
  /\ lock' = [lock EXCEPT ![k] = a]
  /\ asks' = [asks EXCEPT ![k][a] = "locked"]
  /\ UNCHANGED <<memo, available, says, epssVars, stored, ended>>

LoadsAnything(k, outcome) ==
  /\ available' = [available EXCEPT ![k] = IF outcome # "failed" THEN "yes" ELSE "no"]
  /\ memo' = [memo EXCEPT ![k] = IF outcome = "failed" THEN "empty" ELSE outcome]

LoadsAgain(k, outcome) ==
  /\ available' = [available EXCEPT ![k] = IF outcome = "listed" THEN "yes" ELSE "no"]
  /\ memo' = IF outcome = "listed" THEN [memo EXCEPT ![k] = "listed"] ELSE memo

Loads(k, outcome) ==
  /\ available' = [available EXCEPT ![k] = IF outcome = "listed" THEN "yes" ELSE "no"]
  /\ memo' = IF outcome = "listed" THEN [memo EXCEPT ![k] = "listed"]
             ELSE IF k \in Forgetful /\ outcome = "failed" THEN memo
             ELSE [memo EXCEPT ![k] = "empty"]

Load(k, a) ==
  /\ Loading(a) /\ asks[k][a] = "locked" /\ memo[k] = "none"
  /\ \E outcome \in IF k \in stored.lists THEN {"listed"} ELSE {"listed", "empty", "failed"} :
       /\ Loads(k, outcome)
       /\ stored' = IF outcome = "listed" THEN [stored EXCEPT !.lists = @ \cup {k}] ELSE stored
  /\ says' = [says EXCEPT ![k][a] = IF available'[k] = "yes" THEN "answers" ELSE "unknown"]
  /\ asks' = [asks EXCEPT ![k][a] = "done"]
  /\ lock' = [lock EXCEPT ![k] = NoAsker]
  /\ UNCHANGED <<epssVars, ended>>

(***************************************************************************)
(* EPSS: what the run and the cache know, then the findings that nobody is *)
(* fetching become this asker's, with a future each; the others it joins.  *)
(***************************************************************************)
Ask(a) ==
  LET known   == Wants[a] \cap (scores \cup stored.found)
      absent  == (Wants[a] \ known) \cap stored.absent
      missing == {c \in Wants[a] \ (known \cup absent) : status[c] # "ABSENT"}
      mine    == {c \in missing : pending[c] = NoAsker}
  IN
  /\ Live(a) /\ looks[a] = "start"
  /\ scores' = scores \cup known
  /\ status' = [c \in Findings |-> IF c \in known \ scores THEN "FOUND"
                                   ELSE IF c \in absent THEN "ABSENT" ELSE status[c]]
  /\ pending' = [c \in Findings |-> IF c \in mine THEN a ELSE pending[c]]
  /\ future' = [future EXCEPT ![a] = [c \in Findings |-> IF c \in mine THEN "open" ELSE @[c]]]
  /\ waits' = [waits EXCEPT ![a] = {<<pending[c], c>> : c \in missing \ mine}]
  /\ looks' = [looks EXCEPT ![a] = IF mine # {} THEN "fetch" ELSE "join"]
  /\ UNCHANGED <<catVars, stored, ended>>

Owned(a) == {c \in Findings : pending[c] = a}
\* _resolve_pending: a future that a waiter has cancelled stays so.
Resolved(a) ==
  /\ pending' = [c \in Findings |-> IF c \in Owned(a) THEN NoAsker ELSE pending[c]]
  /\ future' = [future EXCEPT ![a] =
       [c \in Findings |-> IF c \in Owned(a) /\ @[c] = "open" THEN "set" ELSE @[c]]]

AbsencesOfAny(outcome, batch, found) == IF outcome = "answered" THEN batch \ found ELSE {}

\* Only an answer that carries a usable score says anything of the others.
Absences(outcome, batch, found) == IF outcome = "answered" /\ found # {} THEN batch \ found ELSE {}

Fetch(a) ==
  /\ Live(a) /\ looks[a] = "fetch"
  /\ \E outcome \in {"answered", "RATE_LIMITED", "NETWORK_ERROR", "UNAVAILABLE", "INVALID_RESPONSE"},
        garbage \in BOOLEAN :
       LET batch  == Owned(a)
           found  == IF outcome = "answered" /\ ~garbage THEN batch \cap Scored ELSE {}
           absent == Absences(outcome, batch, found)
       IN
       /\ garbage => outcome = "answered"
       /\ scores' = scores \cup found
       /\ stored' = [stored EXCEPT !.found = @ \cup found, !.absent = @ \cup absent]
       /\ status' = [c \in Findings |->
            IF c \notin batch THEN status[c]
            ELSE IF c \in found THEN "FOUND"
            ELSE IF c \in absent THEN "ABSENT"
            ELSE IF outcome = "answered" THEN "INVALID_RESPONSE" ELSE outcome]
  /\ Resolved(a)
  /\ looks' = [looks EXCEPT ![a] = "join"]
  /\ UNCHANGED <<catVars, waits, ended>>

\* The joined futures are awaited one after the other.
Current(a) == CHOOSE w \in waits[a] : \A v \in waits[a] : w[2] <= v[2]
Join(a) ==
  /\ Live(a) /\ looks[a] = "join" /\ waits[a] # {}
  /\ LET w == Current(a) IN
       \/ future[w[1]][w[2]] = "set" /\ waits' = [waits EXCEPT ![a] = @ \ {w}] /\ UNCHANGED ended
       \/ future[w[1]][w[2]] = "cancelled" /\ ended' = [ended EXCEPT ![a] = "cancelled"]
          /\ UNCHANGED waits
  /\ UNCHANGED <<catVars, pending, future, status, scores, looks, stored>>

Finish(a) ==
  /\ Live(a) /\ looks[a] = "join" /\ waits[a] = {}
  /\ \A k \in Catalogues : asks[k][a] = "done"
  /\ ended' = [ended EXCEPT ![a] = "done"]
  /\ UNCHANGED <<catVars, epssVars, stored>>

(***************************************************************************)
(* The time budget cancels an enrichment wherever it is: the lock is       *)
(* released, the futures it owns are resolved, and the future that it is   *)
(* waiting for is cancelled with it, for everyone.                         *)
(***************************************************************************)
AwaitedCancelled(a) ==
  IF looks[a] # "join" \/ waits[a] = {} THEN future
  ELSE LET w == Current(a) IN
         IF future[w[1]][w[2]] # "open" THEN future
         ELSE [future EXCEPT ![w[1]][w[2]] = "cancelled"]

TimeOut(a) ==
  /\ Live(a)
  /\ lock' = [k \in Catalogues |-> IF lock[k] = a THEN NoAsker ELSE lock[k]]
  /\ IF looks[a] = "fetch" THEN Resolved(a)
     ELSE future' = AwaitedCancelled(a) /\ UNCHANGED pending
  /\ ended' = [ended EXCEPT ![a] = "timeout"]
  /\ UNCHANGED <<memo, available, asks, says, status, scores, looks, waits, stored>>

Lookup(a) ==
  \/ \E k \in Catalogues : ReadMemo(k, a) \/ Lock(k, a) \/ Load(k, a)
  \/ Ask(a) \/ Fetch(a) \/ Join(a) \/ Finish(a)
Next == \E a \in Askers : Lookup(a) \/ TimeOut(a)

\* Requests end by their own timeouts; a time budget need not end.
Spec == Init /\ [][Next]_vars /\ \A a \in Askers : WF_vars(Lookup(a))
-----------------------------------------------------------------------------
(***************************************************************************)
(* A missing measurement is never a negative: a catalogue answers about a  *)
(* finding only when it was really loaded, and a finding is absent from    *)
(* EPSS, for this run or in the cache, only when FIRST has no score.       *)
(***************************************************************************)
NegativeIsAnswered ==
  /\ \A k \in Catalogues, a \in Askers : says[k][a] = "answers" => memo[k] = "listed"
  /\ \A c \in Findings : status[c] = "ABSENT" \/ c \in stored.absent => c \notin Scored
  /\ scores \cup stored.found \subseteq Scored

\* One run gives one answer: the candidates of a run are compared under the
\* same knowledge of a catalogue that keeps its failures.
OneAnswerPerRun ==
  \A k \in Catalogues \ Forgetful, a, b \in Askers :
    says[k][a] # "unasked" /\ says[k][b] # "unasked" => says[k][a] = says[k][b]

\* Nobody waits for a lookup that no one makes: every enrichment ends.
Settled == \A a \in Askers : ended[a] # ""
EveryLookupEnds == []<>Settled
-----------------------------------------------------------------------------
\* "The first asker fetches it and the rest wait": an enrichment is cancelled
\* by its own time budget only.
\* The code does not keep it: one that waits for the future of an identifier that
\* another asked for is cancelled with it.
OnlyOwnTimeout == \A a \in Askers : ended[a] # "cancelled"
==============================================================================
