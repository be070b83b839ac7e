------------------------ MODULE TrivyCachePoolProofs ------------------------
(***************************************************************************)
(* What TrivyCachePool keeps for any number of runs, slots and crashes:    *)
(* the leases the pool can see exclude each other, and no run links the    *)
(* database while another downloads it.                                    *)
(***************************************************************************)
EXTENDS TrivyCachePool, TLAPS

Locking == {"lock", "prepare", "unlink", "unlink_last"}

\* A file that is being used has a name or had one, and a slot it belongs to.
FdIsOpen ==
  \A p \in Runs : pc[p] \in Locking => fd[p] \in Files /\ index[p] \in Slots

\* A file is open only where it is used, and its slot is in index.
VictimIsSlot ==
  \A p \in Runs : fd[p] # None =>
    index[p] \in Slots /\ pc[p] \in Locking \cup {"prune", "prune_last"}

\* A slot that is held is held by the lock of its file.
LeaseIsLock == \A p \in Runs : \A h \in leases[p] : locked[h.file] = p

\* The lock a run took and has not yet made a lease, or is about to drop, is
\* its own, and is no lease of its own.
NewLock ==
  \A p \in Runs : pc[p] \in {"prepare", "unlink", "unlink_last"} =>
    locked[fd[p]] = p /\ \A h \in leases[p] : h.file # fd[p]

\* db.lock: a download holds it alone.
DbLock ==
  /\ crashes = 0 => \A p \in writing : dbLocked = p
  /\ dbLocked # None => dbShared = {}
  /\ \A p \in Runs : dbLocked = p <=> pc[p] = "download"
  /\ \A p \in dbShared : pc[p] \in {"open", "lock", "prepare"}

\* The database only gets newer, and while slots are leased it does not
\* change; a run that was refreshed reads its revision after it leased.
Linking == {"open", "lock", "prepare"}

SlotsAreOld == \A s \in Slots : dir[s] # None => dir[s] <= db

NotYetRead ==
  \A p \in Runs :
    /\ pc[p] \in {"start", "download"} => fingerprint[p] = None /\ p \notin refreshed
    /\ p \in refreshed /\ pc[p] \in Linking \cup {"lease", "prune", "unlink"}
         => fingerprint[p] = None

LinkersShare == \A p \in Runs : pc[p] \in Linking => p \in dbShared

\* A run about to link a slot by a file that lost its name may link it under
\* a run that sees its lease: that run's revision is the database's.
LateLinks ==
  crashes = 0 =>
    \A p \in refreshed, q \in Runs : \A h \in leases[p] :
      /\ Visible(p, h) /\ fingerprint[p] # None
      /\ pc[q] \in {"lock", "prepare"} /\ index[q] = h.slot /\ fd[q] # h.file
      => db <= fingerprint[p]

Revised == SlotsAreOld /\ NotYetRead /\ LinkersShare /\ LateLinks /\ NoOlderRevisionClaimed

IInv ==
  TypeOK /\ FdIsOpen /\ VictimIsSlot /\ LeaseIsLock /\ NewLock /\ DbLock /\ Revised

Step(p) ==
  \/ Begin(p) \/ DbIsCurrent(p) \/ LockDb(p) \/ Download(p)
  \/ ShareDb(p) \/ OpenSlot(p) \/ LockSlot(p) \/ PrepareSlot(p) \/ SlotsLeased(p)
  \/ (\E s \in Slots : OpenVictim(p, s)) \/ RemoveVictim(p) \/ UnlinkVictim(p)
  \/ Ready(p) \/ Fingerprint(p) \/ Cleanup(p) \/ Exit(p) \/ Crash(p) \/ OrphanEnds(p)

LEMMA SlotsAreNumbers ==
  /\ 0 \in 0..Limit
  /\ Slots \subseteq 0..Limit
  /\ \A i \in Slots : i + 1 \in 0..Limit
BY NumbersAreNumbers DEF Slots

LEMMA SmallIsSlot == \A i \in 0..Limit : i < Limit => i \in Slots
BY NumbersAreNumbers DEF Slots

LEMMA NoneIsNew == None \notin Runs /\ None \notin Files
BY RunsFinite, EnoughFiles

LEMMA PlacesAre ==
  /\ "start" \in Places /\ "download" \in Places /\ "lease" \in Places /\ "open" \in Places
  /\ "lock" \in Places /\ "prepare" \in Places /\ "prune" \in Places /\ "unlink" \in Places
  /\ "ready" \in Places /\ "prune_last" \in Places /\ "unlink_last" \in Places /\ "gone" \in Places
  /\ \A h \in Leased : h.slot \in Slots /\ h.file \in Files
  /\ \A s \in Slots, f \in Files : [slot |-> s, file |-> f] \in Leased
BY DEF Places, Leased

LEMMA InitIInv == Init => IInv
<1> SUFFICES ASSUME Init PROVE IInv
  OBVIOUS
<1> USE NoneIsNew, SlotsAreNumbers, PlacesAre
<1>1. TypeOK
  <2>1. 0 \in Revisions /\ 0 \in 0..MaxCrashes
    BY NumbersAreNumbers DEF Revisions
  <2>2. dir \in [Slots -> Revisions \cup {None}]
    BY <2>1 DEF Init
  <2> QED BY <2>1, <2>2 DEF Init, TypeOK
<1>2. FdIsOpen /\ VictimIsSlot BY DEF Init, FdIsOpen, VictimIsSlot, Locking
<1>3. LeaseIsLock /\ NewLock BY DEF Init, LeaseIsLock, NewLock
<1>4. DbLock BY DEF Init, DbLock
<1>5. Revised
  <2>1. SlotsAreOld BY DEF Init, SlotsAreOld
  <2> QED BY <2>1 DEF Init, Revised, NotYetRead, LinkersShare, LateLinks, NoOlderRevisionClaimed,
                      Linking
<1> QED BY <1>1, <1>2, <1>3, <1>4, <1>5 DEF IInv

-----------------------------------------------------------------------------
(***************************************************************************)
(* Types.                                                                  *)
(***************************************************************************)
LEMMA TypeStep ==
  ASSUME IInv, NEW p \in Runs, Step(p)
  PROVE  TypeOK'
<1> USE NoneIsNew, SlotsAreNumbers, PlacesAre
<1> USE DEF IInv, TypeOK, Goto, fileVars, dbVars, runVars
<1>1. CASE Begin(p) BY <1>1 DEF Begin
<1>2. CASE DbIsCurrent(p) BY <1>2 DEF DbIsCurrent
<1>3. CASE LockDb(p) BY <1>3 DEF LockDb, LocksDb
<1>4. CASE Download(p) BY <1>4 DEF Download, DownloadEnds
<1>5. CASE ShareDb(p) BY <1>5 DEF ShareDb
<1>6. CASE OpenSlot(p) BY <1>6, SmallIsSlot DEF OpenSlot, Opens, MoreSlots
<1>7. CASE LockSlot(p) BY <1>7 DEF LockSlot, NextSlot, FdIsOpen, Locking
<1>8. CASE PrepareSlot(p) BY <1>8 DEF PrepareSlot, NextSlot, FdIsOpen, Locking
<1>9. CASE SlotsLeased(p) BY <1>9 DEF SlotsLeased, PruneStates
<1>10. CASE \E s \in Slots : OpenVictim(p, s) BY <1>10 DEF OpenVictim, Opens
<1>11. CASE RemoveVictim(p) BY <1>11 DEF RemoveVictim, VictimDone
<1>12. CASE UnlinkVictim(p) BY <1>12 DEF UnlinkVictim, VictimDone, PruneStates
<1>13. CASE Ready(p) BY <1>13 DEF Ready
<1>14. CASE Fingerprint(p) BY <1>14 DEF Fingerprint, Reads
<1>15. CASE Cleanup(p) BY <1>15 DEF Cleanup, FreeLocks, PruneStates
<1>16. CASE Exit(p) BY <1>16 DEF Exit
<1>17. CASE Crash(p)
  <2>1. crashes' \in 0..MaxCrashes BY <1>17, NumbersAreNumbers DEF Crash
  <2> QED BY <1>17, <2>1 DEF Crash, FreeLocks
<1>18. CASE OrphanEnds(p) BY <1>18 DEF OrphanEnds
<1> QED BY <1>1, <1>2, <1>3, <1>4, <1>5, <1>6, <1>7, <1>8, <1>9, <1>10, <1>11, <1>12, <1>13,
           <1>14, <1>15, <1>16, <1>17, <1>18 DEF Step

(***************************************************************************)
(* The file in use.                                                        *)
(***************************************************************************)
LEMMA FdStep ==
  ASSUME IInv, NEW p \in Runs, Step(p)
  PROVE  FdIsOpen' /\ VictimIsSlot'
<1> USE NoneIsNew, SlotsAreNumbers
<1>0. /\ pc \in [Runs -> Places] /\ fd \in [Runs -> Files \cup {None}] /\ index \in [Runs -> 0..Limit]
      /\ lockFile \in [Slots -> Files \cup {None}]
      /\ FdIsOpen /\ VictimIsSlot
  BY DEF IInv, TypeOK
<1> USE <1>0
<1> USE DEF Goto, fileVars, dbVars, runVars, FdIsOpen, VictimIsSlot, Locking
<1>1. CASE Begin(p) BY <1>1 DEF Begin, Slots
<1>2. CASE DbIsCurrent(p) BY <1>2 DEF DbIsCurrent
<1>3. CASE LockDb(p) BY <1>3 DEF LockDb, LocksDb
<1>4. CASE Download(p) BY <1>4 DEF Download, DownloadEnds
<1>5. CASE ShareDb(p) BY <1>5 DEF ShareDb
<1>6. CASE OpenSlot(p) BY <1>6, SmallIsSlot DEF OpenSlot, Opens, MoreSlots
<1>7. CASE LockSlot(p) BY <1>7 DEF LockSlot, NextSlot
<1>8. CASE PrepareSlot(p) BY <1>8 DEF PrepareSlot, NextSlot
<1>9. CASE SlotsLeased(p) BY <1>9 DEF SlotsLeased
<1>10. CASE \E s \in Slots : OpenVictim(p, s) BY <1>10 DEF OpenVictim, Opens, PruneStates
<1>11. CASE RemoveVictim(p)
  BY <1>11 DEF RemoveVictim, VictimDone, PruneStates
<1>12. CASE UnlinkVictim(p) BY <1>12 DEF UnlinkVictim, VictimDone
<1>13. CASE Ready(p) BY <1>13 DEF Ready
<1>14. CASE Fingerprint(p) BY <1>14 DEF Fingerprint, Reads
<1>15. CASE Cleanup(p) BY <1>15 DEF Cleanup
<1>16. CASE Exit(p) BY <1>16 DEF Exit
<1>17. CASE Crash(p) BY <1>17 DEF Crash
<1>18. CASE OrphanEnds(p) BY <1>18 DEF OrphanEnds
<1> QED BY <1>1, <1>2, <1>3, <1>4, <1>5, <1>6, <1>7, <1>8, <1>9, <1>10, <1>11, <1>12, <1>13,
           <1>14, <1>15, <1>16, <1>17, <1>18 DEF Step

(***************************************************************************)
(* Locks and leases.  A lock is taken only when nobody has it, so the file *)
(* it is taken on is nobody's lease; only its holder drops it.             *)
(***************************************************************************)
LEMMA LockStep ==
  ASSUME IInv, NEW p \in Runs, Step(p)
  PROVE  LeaseIsLock' /\ NewLock'
<1> USE NoneIsNew
<1>0. /\ pc \in [Runs -> Places] /\ fd \in [Runs -> Files \cup {None}]
      /\ locked \in [Files -> Runs \cup {None}] /\ leases \in [Runs -> SUBSET Leased]
      /\ \A q \in Runs : \A h \in leases[q] : h.file \in Files
      /\ FdIsOpen /\ LeaseIsLock /\ NewLock
  BY PlacesAre DEF IInv, TypeOK
<1> USE <1>0
<1> HIDE DEF IInv
<1> USE DEF Goto, fileVars, dbVars, runVars, LeaseIsLock, NewLock
<1>1. CASE Begin(p) BY <1>1 DEF Begin
<1>2. CASE DbIsCurrent(p) BY <1>2 DEF DbIsCurrent
<1>3. CASE LockDb(p) BY <1>3 DEF LockDb, LocksDb
<1>4. CASE Download(p) BY <1>4 DEF Download, DownloadEnds
<1>5. CASE ShareDb(p) BY <1>5 DEF ShareDb
<1>6. CASE OpenSlot(p) BY <1>6 DEF OpenSlot, Opens
<1>7. CASE LockSlot(p)
  <2>1. CASE ~CanLock(p, fd[p]) BY <1>7, <2>1 DEF LockSlot, NextSlot
  <2>2. CASE CanLock(p, fd[p])
    BY <1>7, <2>2 DEF LockSlot, CanLock, FdIsOpen, Locking
  <2> QED BY <2>1, <2>2
<1>8. CASE PrepareSlot(p)
  <2>1. CASE UNCHANGED locked BY <1>8, <2>1 DEF PrepareSlot, NextSlot, FdIsOpen, Locking
  <2>2. CASE UNCHANGED <<dir, leases>> BY <1>8, <2>2 DEF PrepareSlot, NextSlot, FdIsOpen, Locking
  <2> QED BY <1>8, <2>1, <2>2 DEF PrepareSlot
<1>9. CASE SlotsLeased(p) BY <1>9 DEF SlotsLeased
<1>10. CASE \E s \in Slots : OpenVictim(p, s) BY <1>10 DEF OpenVictim, Opens, PruneStates
<1>11. CASE RemoveVictim(p)
  <2>1. CASE ~CanLock(p, fd[p]) BY <1>11, <2>1 DEF RemoveVictim, VictimDone, PruneStates
  <2>2. CASE CanLock(p, fd[p])
    <3>1. fd[p] \in Files /\ locked[fd[p]] = None
      BY <1>11, <2>2 DEF RemoveVictim, CanLock
    <3>2. /\ locked' = [locked EXCEPT ![fd[p]] = p]
          /\ pc' = [pc EXCEPT ![p] = IF pc[p] = "prune" THEN "unlink" ELSE "unlink_last"]
          /\ UNCHANGED <<leases, fd>>
      BY <1>11, <2>2 DEF RemoveVictim
    <3>3. \A q \in Runs : \A h \in leases[q] : h.file # fd[p]
      BY <3>1
    <3> QED BY <3>1, <3>2, <3>3 DEF FdIsOpen, Locking
  <2> QED BY <2>1, <2>2
<1>12. CASE UnlinkVictim(p)
  BY <1>12 DEF UnlinkVictim, VictimDone, FdIsOpen, Locking
<1>13. CASE Ready(p) BY <1>13 DEF Ready
<1>14. CASE Fingerprint(p) BY <1>14 DEF Fingerprint, Reads
<1>15. CASE Cleanup(p) BY <1>15 DEF Cleanup, FreeLocks, FdIsOpen, Locking
<1>16. CASE Exit(p) BY <1>16 DEF Exit
<1>17. CASE Crash(p) BY <1>17 DEF Crash, FreeLocks, FdIsOpen, Locking
<1>18. CASE OrphanEnds(p) BY <1>18 DEF OrphanEnds
<1> QED BY <1>1, <1>2, <1>3, <1>4, <1>5, <1>6, <1>7, <1>8, <1>9, <1>10, <1>11, <1>12, <1>13,
           <1>14, <1>15, <1>16, <1>17, <1>18 DEF Step

(***************************************************************************)
(* db.lock.                                                                *)
(***************************************************************************)
LEMMA DbStep ==
  ASSUME IInv, NEW p \in Runs, Step(p)
  PROVE  DbLock'
<1> USE NoneIsNew
<1>0. /\ pc \in [Runs -> Places] /\ writing \in SUBSET Runs /\ dbShared \in SUBSET Runs
      /\ dbLocked \in Runs \cup {None} /\ crashes \in Nat /\ DbLock
  BY NumbersAreNumbers DEF IInv, TypeOK
<1> USE <1>0
<1> USE DEF Goto, fileVars, dbVars, runVars, DbLock
<1>1. CASE Begin(p) BY <1>1 DEF Begin
<1>2. CASE DbIsCurrent(p) BY <1>2 DEF DbIsCurrent
<1>3. CASE LockDb(p) BY <1>3 DEF LockDb, LocksDb
<1>4. CASE Download(p) BY <1>4 DEF Download, DownloadEnds
<1>5. CASE ShareDb(p) BY <1>5 DEF ShareDb
<1>6. CASE OpenSlot(p) BY <1>6 DEF OpenSlot
<1>7. CASE LockSlot(p) BY <1>7 DEF LockSlot, NextSlot
<1>8. CASE PrepareSlot(p) BY <1>8 DEF PrepareSlot, NextSlot
<1>9. CASE SlotsLeased(p) BY <1>9 DEF SlotsLeased
<1>10. CASE \E s \in Slots : OpenVictim(p, s) BY <1>10 DEF OpenVictim
<1>11. CASE RemoveVictim(p) BY <1>11 DEF RemoveVictim, PruneStates
<1>12. CASE UnlinkVictim(p) BY <1>12 DEF UnlinkVictim
<1>13. CASE Ready(p) BY <1>13 DEF Ready
<1>14. CASE Fingerprint(p) BY <1>14 DEF Fingerprint, Reads
<1>15. CASE Cleanup(p) BY <1>15 DEF Cleanup
<1>16. CASE Exit(p) BY <1>16 DEF Exit
<1>17. CASE Crash(p) BY <1>17 DEF Crash
<1>18. CASE OrphanEnds(p) BY <1>18 DEF OrphanEnds
<1> QED BY <1>1, <1>2, <1>3, <1>4, <1>5, <1>6, <1>7, <1>8, <1>9, <1>10, <1>11, <1>12, <1>13,
           <1>14, <1>15, <1>16, <1>17, <1>18 DEF Step

(***************************************************************************)
(* Revisions.                                                              *)
(***************************************************************************)
LEMMA Older ==
  ASSUME TypeOK, SlotsAreOld, NEW d \in Nat, db <= d, NEW s \in Slots, dir[s] # None
  PROVE  dir[s] <= d
<1>1. dir[s] \in Nat /\ db \in Nat BY NumbersAreNumbers DEF TypeOK, Revisions
<1>2. dir[s] <= db BY DEF SlotsAreOld
<1> QED BY <1>1, <1>2

LEMMA RevisionStep ==
  ASSUME IInv, NEW p \in Runs, Step(p)
  PROVE  SlotsAreOld' /\ NotYetRead' /\ LinkersShare'
<1> USE NoneIsNew
<1>0. /\ pc \in [Runs -> Places] /\ fingerprint \in [Runs -> Revisions \cup {None}]
      /\ index \in [Runs -> 0..Limit] /\ dir \in [Slots -> Revisions \cup {None}]
      /\ dbShared \in SUBSET Runs /\ db \in Revisions /\ Revisions \subseteq Nat
      /\ SlotsAreOld /\ NotYetRead /\ LinkersShare /\ TypeOK
      /\ \A q \in Runs : pc[q] = "prepare" => index[q] \in Slots
  BY NumbersAreNumbers DEF IInv, TypeOK, Revised, Revisions, FdIsOpen, Locking
<1> USE <1>0
<1> USE DEF Goto, fileVars, dbVars, runVars, SlotsAreOld, NotYetRead, LinkersShare, Linking
<1>1. CASE Begin(p) BY <1>1 DEF Begin
<1>2. CASE DbIsCurrent(p) BY <1>2 DEF DbIsCurrent
<1>3. CASE LockDb(p) BY <1>3 DEF LockDb, LocksDb
<1>4. CASE Download(p)
  <2>1. db' \in Nat /\ db <= db' BY <1>4 DEF Download, DownloadEnds
  <2>2. SlotsAreOld' BY <1>4, <2>1, Older DEF Download, DownloadEnds
  <2>3. NotYetRead' BY <1>4 DEF Download, DownloadEnds
  <2>4. LinkersShare' BY <1>4 DEF Download, DownloadEnds
  <2> QED BY <2>2, <2>3, <2>4
<1>5. CASE ShareDb(p) BY <1>5 DEF ShareDb
<1>6. CASE OpenSlot(p) BY <1>6 DEF OpenSlot, Opens, MoreSlots, InUse
<1>7. CASE LockSlot(p) BY <1>7 DEF LockSlot, NextSlot
<1>8. CASE PrepareSlot(p) BY <1>8 DEF PrepareSlot, NextSlot
<1>9. CASE SlotsLeased(p) BY <1>9 DEF SlotsLeased
<1>10. CASE \E s \in Slots : OpenVictim(p, s) BY <1>10 DEF OpenVictim, Opens, InUse, PruneStates
<1>11. CASE RemoveVictim(p) BY <1>11 DEF RemoveVictim, VictimDone, PruneStates
<1>12. CASE UnlinkVictim(p) BY <1>12 DEF UnlinkVictim, VictimDone
<1>13. CASE Ready(p) BY <1>13 DEF Ready
<1>14. CASE Fingerprint(p) BY <1>14 DEF Fingerprint, Reads
<1>15. CASE Cleanup(p) BY <1>15 DEF Cleanup, FreeLocks, PruneStates
<1>16. CASE Exit(p) BY <1>16 DEF Exit
<1>17. CASE Crash(p) BY <1>17 DEF Crash, FreeLocks
<1>18. CASE OrphanEnds(p)
  <2>1. db' \in Nat /\ db <= db' BY <1>18 DEF OrphanEnds
  <2>2. SlotsAreOld' BY <1>18, <2>1, Older DEF OrphanEnds
  <2> QED BY <1>18, <2>2 DEF OrphanEnds
<1> QED BY <1>1, <1>2, <1>3, <1>4, <1>5, <1>6, <1>7, <1>8, <1>9, <1>10, <1>11, <1>12, <1>13,
           <1>14, <1>15, <1>16, <1>17, <1>18 DEF Step

LEMMA LateStep ==
  ASSUME IInv, NEW p \in Runs, Step(p)
  PROVE  LateLinks'
<1> USE NoneIsNew
<1>0. /\ pc \in [Runs -> Places] /\ fingerprint \in [Runs -> Revisions \cup {None}]
      /\ index \in [Runs -> 0..Limit] /\ fd \in [Runs -> Files \cup {None}]
      /\ lockFile \in [Slots -> Files \cup {None}]
      /\ leases \in [Runs -> SUBSET Leased] /\ refreshed \subseteq Runs
      /\ \A q \in Runs : \A h \in leases[q] : h.slot \in Slots /\ h.file \in Files
      /\ db \in Nat /\ crashes \in Nat
      /\ NotYetRead /\ LinkersShare /\ LateLinks /\ DbLock
  BY NumbersAreNumbers, PlacesAre DEF IInv, TypeOK, Revised, Revisions
<1> USE <1>0
<1> USE DEF Goto, fileVars, dbVars, runVars, LateLinks, NotYetRead, LinkersShare, Linking, Visible
<1>1. CASE Begin(p) BY <1>1 DEF Begin
<1>2. CASE DbIsCurrent(p) BY <1>2 DEF DbIsCurrent
<1>3. CASE LockDb(p) BY <1>3 DEF LockDb, LocksDb
<1>4. CASE Download(p)
  <2>1. dbShared = {} BY <1>4 DEF Download, DownloadEnds, DbLock
  <2>2. \A q \in Runs : pc[q] \notin Linking BY <2>1
  <2>3. \A q \in Runs : pc'[q] \notin Linking BY <1>4, <2>2 DEF Download, DownloadEnds
  <2> QED BY <2>3
<1>5. CASE ShareDb(p) BY <1>5 DEF ShareDb
<1>6. CASE OpenSlot(p) BY <1>6 DEF OpenSlot, Opens, MoreSlots, InUse
<1>7. CASE LockSlot(p) BY <1>7 DEF LockSlot, NextSlot
<1>8. CASE PrepareSlot(p) BY <1>8 DEF PrepareSlot, NextSlot
<1>9. CASE SlotsLeased(p) BY <1>9 DEF SlotsLeased
<1>10. CASE \E s \in Slots : OpenVictim(p, s) BY <1>10 DEF OpenVictim, Opens, InUse, PruneStates
<1>11. CASE RemoveVictim(p) BY <1>11 DEF RemoveVictim, VictimDone, PruneStates
<1>12. CASE UnlinkVictim(p) BY <1>12 DEF UnlinkVictim, VictimDone
<1>13. CASE Ready(p) BY <1>13 DEF Ready
<1>14. CASE Fingerprint(p) BY <1>14 DEF Fingerprint, Reads
<1>15. CASE Cleanup(p) BY <1>15 DEF Cleanup, FreeLocks, PruneStates
<1>16. CASE Exit(p) BY <1>16 DEF Exit
<1>17. CASE Crash(p) BY <1>17 DEF Crash, FreeLocks
<1>18. CASE OrphanEnds(p)
  <2>1. crashes # 0 BY <1>18 DEF OrphanEnds, DbLock
  <2> QED BY <1>18, <2>1 DEF OrphanEnds
<1> QED BY <1>1, <1>2, <1>3, <1>4, <1>5, <1>6, <1>7, <1>8, <1>9, <1>10, <1>11, <1>12, <1>13,
           <1>14, <1>15, <1>16, <1>17, <1>18 DEF Step

LEMMA ClaimStep ==
  ASSUME IInv, NEW p \in Runs, Step(p)
  PROVE  NoOlderRevisionClaimed'
<1> USE NoneIsNew
<1>0. /\ pc \in [Runs -> Places] /\ fingerprint \in [Runs -> Revisions \cup {None}]
      /\ index \in [Runs -> 0..Limit] /\ fd \in [Runs -> Files \cup {None}]
      /\ lockFile \in [Slots -> Files \cup {None}]
      /\ dir \in [Slots -> Revisions \cup {None}]
      /\ leases \in [Runs -> SUBSET Leased] /\ refreshed \subseteq Runs
      /\ \A q \in Runs : \A h \in leases[q] : h.slot \in Slots /\ h.file \in Files
      /\ db \in Nat /\ crashes \in Nat
      /\ SlotsAreOld /\ NotYetRead /\ LateLinks /\ NoOlderRevisionClaimed
      /\ FdIsOpen /\ LeaseIsLock /\ NewLock
  BY NumbersAreNumbers, PlacesAre DEF IInv, TypeOK, Revised, Revisions
<1> USE <1>0
<1> USE DEF Goto, fileVars, dbVars, runVars, NoOlderRevisionClaimed, NotYetRead, Linking, Visible
<1>1. CASE Begin(p) BY <1>1 DEF Begin
<1>2. CASE DbIsCurrent(p) BY <1>2 DEF DbIsCurrent
<1>3. CASE LockDb(p) BY <1>3 DEF LockDb, LocksDb
<1>4. CASE Download(p)
  <2>1. /\ p \notin refreshed /\ UNCHANGED <<crashes, leases, lockFile, dir>>
        /\ \A q \in Runs : q # p => fingerprint'[q] = fingerprint[q]
        /\ refreshed' \subseteq refreshed \cup {p}
    BY <1>4 DEF Download, DownloadEnds
  <2>2. p \in refreshed' => fingerprint'[p] = None
    BY <1>4, <2>1 DEF Download, DownloadEnds
  <2> QED BY <2>1, <2>2
<1>5. CASE ShareDb(p) BY <1>5 DEF ShareDb
<1>6. CASE OpenSlot(p) BY <1>6 DEF OpenSlot, Opens, MoreSlots, InUse
<1>7. CASE LockSlot(p) BY <1>7 DEF LockSlot, NextSlot
<1>8. CASE PrepareSlot(p)
  BY <1>8 DEF PrepareSlot, NextSlot, LateLinks, LeaseIsLock, NewLock, FdIsOpen, Locking
<1>9. CASE SlotsLeased(p) BY <1>9 DEF SlotsLeased
<1>10. CASE \E s \in Slots : OpenVictim(p, s) BY <1>10 DEF OpenVictim, Opens, InUse, PruneStates
<1>11. CASE RemoveVictim(p) BY <1>11 DEF RemoveVictim, VictimDone, PruneStates
<1>12. CASE UnlinkVictim(p) BY <1>12 DEF UnlinkVictim, VictimDone
<1>13. CASE Ready(p) BY <1>13 DEF Ready
<1>14. CASE Fingerprint(p) BY <1>14 DEF Fingerprint, Reads, SlotsAreOld
<1>15. CASE Cleanup(p) BY <1>15 DEF Cleanup, FreeLocks, PruneStates
<1>16. CASE Exit(p) BY <1>16 DEF Exit
<1>17. CASE Crash(p) BY <1>17 DEF Crash, FreeLocks
<1>18. CASE OrphanEnds(p) BY <1>18 DEF OrphanEnds
<1> QED BY <1>1, <1>2, <1>3, <1>4, <1>5, <1>6, <1>7, <1>8, <1>9, <1>10, <1>11, <1>12, <1>13,
           <1>14, <1>15, <1>16, <1>17, <1>18 DEF Step

-----------------------------------------------------------------------------
LEMMA NextIInv == IInv /\ [Next]_vars => IInv'
<1> SUFFICES ASSUME IInv, [Next]_vars PROVE IInv'
  OBVIOUS
<1>1. CASE UNCHANGED vars
  BY <1>1 DEF IInv, TypeOK, FdIsOpen, VictimIsSlot, LeaseIsLock, NewLock, DbLock, vars, fileVars,
              dbVars, runVars, Revised, SlotsAreOld, NotYetRead, LinkersShare, LateLinks,
              NoOlderRevisionClaimed, Visible
<1>2. CASE Next
  <2>1. PICK p \in Runs : Step(p)
    BY <1>2 DEF Next, Step, Starts, Leases, Prunes, Uses
  <2> QED BY <2>1, TypeStep, FdStep, LockStep, DbStep, RevisionStep, LateStep,
         ClaimStep DEF IInv, Revised
<1> QED BY <1>1, <1>2

LEMMA AlwaysIInv == Spec => []IInv
BY InitIInv, NextIInv, PTL DEF Spec

LEMMA Consequences == IInv => TypeOK /\ OneVisibleHolder /\ NoHalfWrittenDb /\ NoOlderRevisionClaimed
<1> SUFFICES ASSUME IInv
             PROVE  TypeOK /\ OneVisibleHolder /\ NoHalfWrittenDb /\ NoOlderRevisionClaimed
  OBVIOUS
<1>1. OneVisibleHolder BY DEF IInv, LeaseIsLock, OneVisibleHolder, Visible
<1>2. NoHalfWrittenDb BY RunsFinite DEF IInv, TypeOK, DbLock, NoHalfWrittenDb
<1> QED BY <1>1, <1>2 DEF IInv, Revised

(***************************************************************************)
(* A directory is removed by the run that locked the file it opened for    *)
(* it: were that the file of a lease, it would be locked already, by the   *)
(* run that removes or by another.                                         *)
(***************************************************************************)
LEMMA RemoverStep ==
  ASSUME IInv, NEW r \in Runs, Step(r), NEW p \in Runs, NEW q \in Runs, NEW h \in leases[p],
         Visible(p, h), dir[h.slot] # None, dir'[h.slot] = None, pc'[q] # pc[q]
  PROVE  fd[q] # lockFile[h.slot]
<1> USE NoneIsNew
<1>0. /\ pc \in [Runs -> Places] /\ dir \in [Slots -> Revisions \cup {None}]
      /\ locked \in [Files -> Runs \cup {None}] /\ h.slot \in Slots /\ h.file \in Files
      /\ locked[h.file] = p /\ lockFile[h.slot] = h.file
      /\ pc[r] = "prepare" => locked[fd[r]] = r /\ \A g \in leases[r] : g.file # fd[r]
  BY PlacesAre DEF IInv, TypeOK, LeaseIsLock, NewLock, Visible
<1>1. q = r
  BY <1>0 DEF Step, Begin, DbIsCurrent, LockDb, LocksDb, Download, DownloadEnds, ShareDb, OpenSlot,
     LockSlot, NextSlot, PrepareSlot, SlotsLeased, OpenVictim, RemoveVictim, UnlinkVictim, Ready,
     Fingerprint, Reads, Cleanup, Exit, Crash, OrphanEnds, Goto, runVars
<1>2. dir' # dir
  OBVIOUS
<1>3. PrepareSlot(r) \/ RemoveVictim(r)
  BY <1>2 DEF Step, Begin, DbIsCurrent, LockDb, LocksDb, Download, DownloadEnds, ShareDb, OpenSlot,
     LockSlot, SlotsLeased, OpenVictim, UnlinkVictim, Ready, Fingerprint, Reads, Cleanup, Exit,
     Crash, OrphanEnds, fileVars
<1>4. CASE PrepareSlot(r) BY <1>0, <1>1, <1>4 DEF PrepareSlot
<1>5. CASE RemoveVictim(r) BY <1>0, <1>1, <1>2, <1>5 DEF RemoveVictim, CanLock
<1> QED BY <1>3, <1>4, <1>5

\* The variables keep their shapes, for any runs, slots and bounds.
THEOREM TypeCorrect == Spec => []TypeOK
BY AlwaysIInv, Consequences, PTL

\* Of the runs that hold one slot, at most one is seen by the others, however
\* pruning, leasing and crashes interleave (cache_pool.py, _try_lock).
THEOREM VisibleLeasesExclude == Spec => []OneVisibleHolder
BY AlwaysIInv, Consequences, PTL

\* No run links the shared database while another run downloads it, as long
\* as no run was killed (cache_pool.py, _db_lease and db_refresh_lease).
THEOREM DatabaseLinkedWhole == Spec => []NoHalfWrittenDb
BY AlwaysIInv, Consequences, PTL

\* After a refresh that succeeded no run reports, for what its slots produce,
\* a revision older than theirs (scanner.py, db_revision).
THEOREM NeverOlder == Spec => []NoOlderRevisionClaimed
BY AlwaysIInv, Consequences, PTL

\* No run, pruning, removes a slot whose lease it could see
\* (cache_pool.py, _remove_if_unleased).
THEOREM InUseIsNotPruned == Spec => RemovedOnlyUnseen
<1>1. IInv /\ [Next]_vars =>
        [\A p, q \in Runs : \A h \in leases[p] :
           Visible(p, h) /\ dir[h.slot] # None /\ dir'[h.slot] = None /\ pc'[q] # pc[q]
             => fd[q] # lockFile[h.slot]]_vars
  <2> SUFFICES ASSUME IInv, Next, NEW p \in Runs, NEW q \in Runs, NEW h \in leases[p],
                      Visible(p, h), dir[h.slot] # None, dir'[h.slot] = None, pc'[q] # pc[q]
               PROVE  fd[q] # lockFile[h.slot]
    OBVIOUS
  <2>1. PICK r \in Runs : Step(r)
    BY DEF Next, Step, Starts, Leases, Prunes, Uses
  <2> QED BY <2>1, RemoverStep
<1> QED BY <1>1, AlwaysIInv, PTL DEF Spec, RemovedOnlyUnseen

=============================================================================
