------------------------- MODULE SingleFlightProofs -------------------------
(***************************************************************************)
(* Proofs about SingleFlight, for any set of keys and any finite set of    *)
(* callers: the type invariant, at most one live task per key, no running  *)
(* task without a waiter, and no task cancelled while somebody waits.      *)
(***************************************************************************)
EXTENDS SingleFlight, FiniteSetTheorems, TLAPS

(***************************************************************************)
(* The inductive invariant.  A flight whose callback has not run is the    *)
(* one stored under its key, and the counter of a flight is the number of  *)
(* callers that wait for it.                                               *)
(***************************************************************************)
StoredIsAlive ==
  \A k \in Keys : table[k] # None =>
    key[table[k]] = k /\ work[table[k]] # "none" /\ table[k] \notin forgotten

UnforgottenIsStored ==
  \A f \in Callers : work[f] # "none" /\ f \notin forgotten =>
    key[f] \in Keys /\ table[key[f]] = f

ForgottenEnded == \A f \in forgotten : work[f] \in Ended

IdleCreatedNothing == \A c \in Callers : pc[c] = "idle" => work[c] = "none"

\* Whoever is past the lookup awaits, or awaited, a flight of its own key.
JoinedOwnKey ==
  \A c \in Callers : pc[c] # "idle" =>
    /\ joined[c] \in Callers /\ work[joined[c]] # "none"
    /\ key[c] \in Keys /\ key[joined[c]] = key[c]

\* The caller that cancelled a task awaits its end.
CancellingIsReaped ==
  \A f \in Callers : work[f] = "cancelling" =>
    \E c \in Callers : pc[c] = "reaping" /\ joined[c] = f

Counted == \A f \in Callers : waiters[f] = Cardinality(Waiting(f))

IInv ==
  /\ TypeOK
  /\ StoredIsAlive
  /\ UnforgottenIsStored
  /\ ForgottenEnded
  /\ IdleCreatedNothing
  /\ JoinedOwnKey
  /\ CancellingIsReaped
  /\ Counted
  /\ NobodyAbandoned

-----------------------------------------------------------------------------
LEMMA WaitingFinite == ASSUME NEW f PROVE IsFiniteSet(Waiting(f))
  BY CallersFinite, FS_Subset DEF Waiting

LEMMA WaitingFinitePrime == ASSUME NEW f PROVE IsFiniteSet(Waiting(f)')
  BY CallersFinite, FS_Subset DEF Waiting

\* The count of a waiting set that gains or loses one caller.
LEMMA CountAdd ==
  ASSUME NEW S, NEW c, IsFiniteSet(S), c \notin S
  PROVE  Cardinality(S \cup {c}) = Cardinality(S) + 1
  BY FS_AddElement

LEMMA CountRemove ==
  ASSUME NEW S, NEW c, IsFiniteSet(S), c \in S
  PROVE  /\ Cardinality(S \ {c}) = Cardinality(S) - 1
         /\ Cardinality(S) = 1 <=> S \ {c} = {}
<1>1. Cardinality(S \ {c}) = Cardinality(S) - 1 /\ IsFiniteSet(S \ {c})
  BY FS_RemoveElement
<1>2. Cardinality(S) \in Nat
  BY FS_CardinalityType
<1>3. Cardinality(S \ {c}) = 0 <=> S \ {c} = {}
  BY <1>1, FS_EmptySet
<1> QED
  BY <1>1, <1>2, <1>3

\* Counted is kept by a step that changes the waiting set of one flight and
\* its counter to match.
LEMMA CountedKept ==
  ASSUME Counted, waiters \in [Callers -> Nat], NEW f \in Callers, NEW n,
         waiters' = [waiters EXCEPT ![f] = n], n = Cardinality(Waiting(f)'),
         \A g \in Callers \ {f} : Waiting(g)' = Waiting(g)
  PROVE  Counted'
<1> SUFFICES ASSUME NEW g \in Callers PROVE waiters'[g] = Cardinality(Waiting(g)')
  BY DEF Counted
<1>1. CASE g = f
  BY <1>1
<1>2. CASE g # f
  BY <1>2 DEF Counted
<1> QED
  BY <1>1, <1>2

LEMMA InitInv == Init => IInv
<1> SUFFICES ASSUME Init PROVE IInv
  OBVIOUS
<1>1. TypeOK
  BY DEF Init, TypeOK, WorkStates
<1>2. Counted
  <2>1. \A f \in Callers : Waiting(f) = {}
    BY DEF Init, Waiting
  <2> QED
    BY <2>1, FS_EmptySet DEF Init, Counted
<1> QED
  BY <1>1, <1>2 DEF Init, IInv, StoredIsAlive, UnforgottenIsStored, ForgottenEnded,
     IdleCreatedNothing, JoinedOwnKey, CancellingIsReaped, NobodyAbandoned

-----------------------------------------------------------------------------
LEMMA StartKeeps ==
  ASSUME IInv, NEW c \in Callers, NEW k \in Keys, Start(c, k)
  PROVE  IInv'
<1> USE NoneIsNothing DEF IInv, TypeOK, WorkStates, Live, Ended, Left
<1>1. TypeOK'
  BY DEF Start
<1>2. Waiting(c) = {} /\ Waiting(c)' = {c}
  BY DEF Start, Waiting, JoinedOwnKey, IdleCreatedNothing
<1>3. \A f \in Callers \ {c} : Waiting(f)' = Waiting(f)
  BY DEF Start, Waiting
<1>4. Counted'
  BY <1>2, <1>3, FS_Singleton DEF Start, Counted
<1>5. NobodyAbandoned'
  BY <1>2, <1>3 DEF Start, NobodyAbandoned
<1>6. c \notin forgotten
  BY DEF Start, ForgottenEnded, IdleCreatedNothing
<1>7. StoredIsAlive'
  BY <1>6 DEF Start, StoredIsAlive, IdleCreatedNothing
<1>8. UnforgottenIsStored'
  BY <1>6 DEF Start, UnforgottenIsStored
<1>9. ForgottenEnded' /\ IdleCreatedNothing' /\ JoinedOwnKey' /\ CancellingIsReaped'
  BY <1>6 DEF Start, ForgottenEnded, IdleCreatedNothing, JoinedOwnKey, CancellingIsReaped
<1> QED
  BY <1>1, <1>4, <1>5, <1>7, <1>8, <1>9

LEMMA JoinKeeps ==
  ASSUME IInv, NEW c \in Callers, NEW k \in Keys, Join(c, k)
  PROVE  IInv'
<1> USE NoneIsNothing DEF IInv, TypeOK, WorkStates, Live, Ended, Left
<1> PICK f \in Callers : f = table[k]
  BY DEF Join
<1>1. work[f] # "none" /\ c # f /\ f = table[k] /\ key[f] = k
  BY DEF Join, StoredIsAlive, IdleCreatedNothing
<1>2. TypeOK'
  BY <1>1 DEF Join
<1>3. c \notin Waiting(f) /\ work[c] = "none" /\ c \notin forgotten
  BY DEF Join, Waiting, IdleCreatedNothing, ForgottenEnded
<1>4. \A g \in Callers \ {f} : Waiting(g)' = Waiting(g)
  BY <1>1 DEF Join, Waiting
<1>5. ASSUME work[f] \in Live PROVE Counted' /\ NobodyAbandoned'
  <2>1. Waiting(f)' = Waiting(f) \cup {c}
    BY <1>1, <1>5 DEF Join, Waiting
  <2>2. waiters' = [waiters EXCEPT ![f] = waiters[f] + 1]
    BY <1>1, <1>5 DEF Join
  <2>3. waiters[f] + 1 = Cardinality(Waiting(f)')
    BY <1>1, <1>3, <2>1, WaitingFinite, CountAdd DEF Counted
  <2>4. Counted'
    BY <1>1, <1>4, <2>2, <2>3, CountedKept
  <2> QED
    BY <2>1, <2>4, <1>4 DEF Join, NobodyAbandoned
<1>6. ASSUME work[f] \in Ended PROVE Counted' /\ NobodyAbandoned'
  <2>1. Waiting(f)' = Waiting(f)
    BY <1>1, <1>3, <1>6 DEF Join, Waiting
  <2> QED
    BY <1>6, <2>1, <1>4 DEF Join, Counted, NobodyAbandoned
<1>7. Counted' /\ NobodyAbandoned'
  BY <1>1, <1>5, <1>6 DEF Join
<1>8. StoredIsAlive' /\ UnforgottenIsStored'
  BY <1>1, <1>3 DEF Join, StoredIsAlive, UnforgottenIsStored
<1>9. ForgottenEnded' /\ IdleCreatedNothing'
  BY <1>1, <1>3 DEF Join, ForgottenEnded, IdleCreatedNothing
<1>10. JoinedOwnKey'
  <2> SUFFICES ASSUME NEW d \in Callers, pc'[d] # "idle"
               PROVE  /\ joined'[d] \in Callers /\ work'[joined'[d]] # "none"
                      /\ key'[d] \in Keys /\ key'[joined'[d]] = key'[d]
    BY DEF JoinedOwnKey
  <2>1. CASE d = c
    BY <1>1, <2>1 DEF Join
  <2>2. CASE d # c
    BY <1>1, <1>3, <2>2 DEF Join, JoinedOwnKey
  <2> QED
    BY <2>1, <2>2
<1>11. CancellingIsReaped'
  BY <1>1 DEF Join, CancellingIsReaped
<1> QED
  BY <1>2, <1>7, <1>8, <1>9, <1>10, <1>11

\* What ends a task moves no caller and no entry of the table.
LEMMA EndKeeps ==
  ASSUME IInv, NEW f \in Callers, Finish(f) \/ Unwind(f)
  PROVE  IInv'
<1> USE NoneIsNothing DEF IInv, TypeOK, WorkStates, Live, Ended, Left
<1>1. PICK outcome \in Ended : /\ work' = [work EXCEPT ![f] = outcome]
                               /\ work[f] \in Live
                               /\ UNCHANGED <<table, forgotten, waiters, pc, key, joined, cancelled>>
  BY DEF Finish, Unwind
<1>2. TypeOK'
  BY <1>1
<1>3. \A g \in Callers : Waiting(g)' = Waiting(g)
  BY <1>1 DEF Waiting
<1>4. Counted' /\ NobodyAbandoned'
  BY <1>1, <1>3 DEF Counted, NobodyAbandoned
<1>5. StoredIsAlive' /\ UnforgottenIsStored'
  BY <1>1 DEF StoredIsAlive, UnforgottenIsStored
<1>6. ForgottenEnded' /\ IdleCreatedNothing' /\ JoinedOwnKey' /\ CancellingIsReaped'
  BY <1>1 DEF ForgottenEnded, IdleCreatedNothing, JoinedOwnKey, CancellingIsReaped
<1> QED
  BY <1>2, <1>4, <1>5, <1>6

LEMMA OnDoneKeeps ==
  ASSUME IInv, NEW f \in Callers, OnDone(f)
  PROVE  IInv'
<1> USE NoneIsNothing DEF IInv, TypeOK, WorkStates, Live, Ended, Left
<1>1. key[f] \in Keys /\ table[key[f]] = f
  BY DEF OnDone, UnforgottenIsStored
<1>2. table' = [table EXCEPT ![key[f]] = None]
  BY <1>1 DEF OnDone
<1>3. TypeOK'
  BY <1>1, <1>2 DEF OnDone
<1>4. \A g \in Callers : Waiting(g)' = Waiting(g)
  BY DEF OnDone, Waiting
<1>5. Counted' /\ NobodyAbandoned'
  BY <1>4 DEF OnDone, Counted, NobodyAbandoned
<1>6. StoredIsAlive'
  BY <1>1, <1>2 DEF OnDone, StoredIsAlive
<1>7. UnforgottenIsStored'
  BY <1>1, <1>2 DEF OnDone, UnforgottenIsStored
<1>8. ForgottenEnded' /\ IdleCreatedNothing' /\ JoinedOwnKey' /\ CancellingIsReaped'
  BY DEF OnDone, ForgottenEnded, IdleCreatedNothing, JoinedOwnKey, CancellingIsReaped
<1> QED
  BY <1>3, <1>5, <1>6, <1>7, <1>8

LEMMA ResumeKeeps ==
  ASSUME IInv, NEW c \in Callers, Resume(c)
  PROVE  IInv'
<1> USE NoneIsNothing DEF IInv, TypeOK, WorkStates, Live, Ended, Left
<1> PICK f \in Callers : f = joined[c]
  BY DEF Resume, JoinedOwnKey
<1>1. f = joined[c] /\ work[f] \in Ended /\ c \in Waiting(f)
  BY DEF Resume, ForgottenEnded, Waiting
<1>2. Cardinality(Waiting(f)) \in Nat /\ Cardinality(Waiting(f)) # 0
  BY <1>1, WaitingFinite, FS_EmptySet, FS_CardinalityType
<1>3. waiters[f] - 1 \in Nat
  BY <1>1, <1>2 DEF Counted
<1>4. TypeOK'
  BY <1>1, <1>3 DEF Resume
<1>5. Waiting(f)' = Waiting(f) \ {c}
  BY <1>1 DEF Resume, Waiting
<1>6. \A g \in Callers \ {f} : Waiting(g)' = Waiting(g)
  BY <1>1 DEF Resume, Waiting
<1>7. waiters' = [waiters EXCEPT ![f] = waiters[f] - 1]
  BY DEF Resume
<1>8. Counted'
  <2>1. waiters[f] - 1 = Cardinality(Waiting(f)')
    BY <1>1, <1>5, WaitingFinite, CountRemove DEF Counted
  <2> QED
    BY <1>1, <1>6, <1>7, <2>1, CountedKept
<1>9. NobodyAbandoned'
  BY <1>1, <1>6 DEF Resume, NobodyAbandoned
<1>10. StoredIsAlive' /\ UnforgottenIsStored'
  BY DEF Resume, StoredIsAlive, UnforgottenIsStored
<1>11. ForgottenEnded' /\ IdleCreatedNothing' /\ JoinedOwnKey' /\ CancellingIsReaped'
  BY <1>1 DEF Resume, ForgottenEnded, IdleCreatedNothing, JoinedOwnKey, CancellingIsReaped
<1> QED
  BY <1>4, <1>8, <1>9, <1>10, <1>11

LEMMA CancelKeeps ==
  ASSUME IInv, NEW c \in Callers, Cancel(c)
  PROVE  IInv' /\ (\A g \in Callers : work[g] = "running" /\ work'[g] = "cancelling"
                                      => Waiting(g)' = {})
<1> USE NoneIsNothing DEF IInv, TypeOK, WorkStates, Live, Ended, Left
<1> PICK f \in Callers : f = joined[c]
  BY DEF Cancel, LeaveEarly, JoinedOwnKey
<1>1. f = joined[c] /\ work[f] # "none" /\ c \in Waiting(f) /\ pc[c] = "waiting"
  BY DEF Cancel, LeaveEarly, JoinedOwnKey, Waiting
<1>2. Cardinality(Waiting(f)) \in Nat /\ Cardinality(Waiting(f)) # 0
  BY <1>1, WaitingFinite, FS_EmptySet, FS_CardinalityType
<1>3. waiters[f] - 1 \in Nat
  BY <1>1, <1>2 DEF Counted
<1>4. waiters' = [waiters EXCEPT ![f] = waiters[f] - 1]
  BY DEF Cancel, LeaveEarly
<1>5. \/ /\ waiters[f] = 1 /\ work[f] \in Live
         /\ work' = [work EXCEPT ![f] = "cancelling"]
         /\ pc' = [pc EXCEPT ![c] = "reaping"]
      \/ /\ ~(waiters[f] = 1 /\ work[f] \in Live)
         /\ work' = work
         /\ pc' = [pc EXCEPT ![c] = "cancelled"]
  BY DEF Cancel, LeaveEarly
<1>6. UNCHANGED <<table, forgotten, key, joined>> /\ cancelled' = cancelled \cup {c}
  BY DEF Cancel, LeaveEarly
<1>7. TypeOK'
  BY <1>1, <1>3, <1>4, <1>5, <1>6
<1>8. Waiting(f)' = Waiting(f) \ {c}
  BY <1>1, <1>5, <1>6 DEF Waiting
<1>9. \A g \in Callers \ {f} : Waiting(g)' = Waiting(g)
  BY <1>1, <1>5, <1>6 DEF Waiting
<1>10. waiters[f] - 1 = Cardinality(Waiting(f)')
  BY <1>1, <1>8, WaitingFinite, CountRemove DEF Counted
<1>11. Counted'
  BY <1>1, <1>4, <1>9, <1>10, CountedKept
<1>12. waiters[f] = 1 <=> Waiting(f)' = {}
  BY <1>1, <1>8, WaitingFinite, CountRemove DEF Counted
<1>13. NobodyAbandoned'
  <2> SUFFICES ASSUME NEW g \in Callers, work'[g] = "running" PROVE Waiting(g)' # {}
    BY DEF NobodyAbandoned
  <2>1. CASE g = f
    BY <1>1, <1>5, <1>12, <2>1
  <2>2. CASE g # f
    BY <1>5, <1>9, <2>2 DEF NobodyAbandoned
  <2> QED
    BY <2>1, <2>2
<1>14. StoredIsAlive' /\ UnforgottenIsStored'
  BY <1>1, <1>5, <1>6 DEF StoredIsAlive, UnforgottenIsStored
<1>15. ForgottenEnded' /\ IdleCreatedNothing' /\ JoinedOwnKey' /\ CancellingIsReaped'
  BY <1>1, <1>5, <1>6 DEF ForgottenEnded, IdleCreatedNothing, JoinedOwnKey, CancellingIsReaped
<1>16. \A g \in Callers : work[g] = "running" /\ work'[g] = "cancelling" => Waiting(g)' = {}
  <2> SUFFICES ASSUME NEW g \in Callers, work[g] = "running", work'[g] = "cancelling"
               PROVE  Waiting(g)' = {}
    OBVIOUS
  <2>1. g = f /\ waiters[f] = 1
    BY <1>1, <1>5
  <2> QED
    BY <1>12, <2>1
<1> QED
  BY <1>7, <1>11, <1>13, <1>14, <1>15, <1>16

LEMMA ReapKeeps ==
  ASSUME IInv, NEW c \in Callers, Reap(c)
  PROVE  IInv'
<1> USE NoneIsNothing DEF IInv, TypeOK, WorkStates, Live, Ended, Left
<1>1. TypeOK'
  BY DEF Reap, Reaped
<1>2. \A g \in Callers : Waiting(g)' = Waiting(g)
  BY DEF Reap, Reaped, Waiting
<1>3. Counted' /\ NobodyAbandoned'
  BY <1>2 DEF Reap, Reaped, Counted, NobodyAbandoned
<1>4. StoredIsAlive' /\ UnforgottenIsStored'
  BY DEF Reap, Reaped, StoredIsAlive, UnforgottenIsStored
<1>5. ForgottenEnded' /\ IdleCreatedNothing' /\ JoinedOwnKey' /\ CancellingIsReaped'
  BY DEF Reap, Reaped, ForgottenEnded, IdleCreatedNothing, JoinedOwnKey, CancellingIsReaped
<1> QED
  BY <1>1, <1>3, <1>4, <1>5

LEMMA StutterKeeps == IInv /\ UNCHANGED vars => IInv'
<1> SUFFICES ASSUME IInv, UNCHANGED vars PROVE IInv'
  OBVIOUS
<1>1. \A g \in Callers : Waiting(g)' = Waiting(g)
  BY DEF vars, Waiting
<1> QED
  BY <1>1 DEF vars, IInv, TypeOK, StoredIsAlive, UnforgottenIsStored, ForgottenEnded,
     IdleCreatedNothing, JoinedOwnKey, CancellingIsReaped, Counted, NobodyAbandoned

\* The invariant is inductive, and no step cancels a task somebody waits for.
LEMMA StepKeeps == IInv /\ [Next]_vars => IInv'
<1> SUFFICES ASSUME IInv, [Next]_vars PROVE IInv'
  OBVIOUS
<1>1. ASSUME NEW c \in Callers, NEW k \in Keys, Start(c, k) \/ Join(c, k) PROVE IInv'
  BY <1>1, StartKeeps, JoinKeeps
<1>2. ASSUME NEW f \in Callers, Finish(f) \/ Unwind(f) \/ OnDone(f) PROVE IInv'
  BY <1>2, EndKeeps, OnDoneKeeps
<1>3. ASSUME NEW c \in Callers, Resume(c) \/ Cancel(c) \/ Reap(c) PROVE IInv'
  BY <1>3, ResumeKeeps, CancelKeeps, ReapKeeps
<1> QED
  BY <1>1, <1>2, <1>3, StutterKeeps DEF Next

LEMMA Invariance == Spec => []IInv
  BY InitInv, StepKeeps, PTL DEF Spec

-----------------------------------------------------------------------------
\* The variables of run() keep their types for every number of callers.
THEOREM TypeCorrect == Spec => []TypeOK
<1>1. IInv => TypeOK
  BY DEF IInv
<1> QED
  BY <1>1, Invariance, PTL

\* Two tasks never work on the same key at once: the flight of a live task is
\* the one the table holds under its key, and a table entry is one flight.
THEOREM Coalesced == Spec => []OneTaskPerKey
<1>1. IInv => OneTaskPerKey
  BY DEF IInv, TypeOK, OneTaskPerKey, UnforgottenIsStored, ForgottenEnded, Live, Ended
<1> QED
  BY <1>1, Invariance, PTL

\* A running task always has a waiter, whichever callers join and leave.
THEOREM NeverAbandoned == Spec => []NobodyAbandoned
<1>1. IInv => NobodyAbandoned
  BY DEF IInv
<1> QED
  BY <1>1, Invariance, PTL

\* A caller is only ever handed what a flight of its own key ended with.
THEOREM HandedOwnAnswer == Spec => []JoinedOwnKey
<1>1. IInv => JoinedOwnKey
  BY DEF IInv
<1> QED
  BY <1>1, Invariance, PTL

\* No task unwinds for nobody: whoever cancelled it stays until it has ended.
THEOREM CancellationIsAwaited == Spec => []CancellingIsReaped
<1>1. IInv => CancellingIsReaped
  BY DEF IInv
<1> QED
  BY <1>1, Invariance, PTL

\* A cancellation never reaches a task that another caller still waits for.
THEOREM CancelsOnlyUnneeded == Spec => CancelOnlyUnneeded
<1> DEFINE Unneeded == \A f \in Callers :
             work[f] = "running" /\ work'[f] = "cancelling" => Waiting(f)' = {}
<1>1. IInv /\ [Next]_vars => [Unneeded]_vars
  <2> SUFFICES ASSUME IInv, Next PROVE Unneeded
    OBVIOUS
  <2> USE DEF IInv, TypeOK, WorkStates, Live, Ended
  <2>1. ASSUME NEW c \in Callers, NEW k \in Keys, Start(c, k) \/ Join(c, k) PROVE Unneeded
    BY <2>1 DEF Start, Join
  <2>2. ASSUME NEW f \in Callers, Finish(f) \/ Unwind(f) \/ OnDone(f) PROVE Unneeded
    BY <2>2 DEF Finish, Unwind, OnDone
  <2>3. ASSUME NEW c \in Callers, Resume(c) \/ Reap(c) PROVE Unneeded
    BY <2>3 DEF Resume, Reap, Reaped
  <2>4. ASSUME NEW c \in Callers, Cancel(c) PROVE Unneeded
    BY <2>4, CancelKeeps
  <2> QED
    BY <2>1, <2>2, <2>3, <2>4 DEF Next
<1> QED
  BY <1>1, Invariance, PTL DEF Spec, CancelOnlyUnneeded
=============================================================================
