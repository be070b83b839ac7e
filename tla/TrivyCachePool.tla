--------------------------- MODULE TrivyCachePool ---------------------------
(***************************************************************************)
(* dockerls/integrations/trivy/cache_pool.py, with the parts of            *)
(* trivy/scanner.py that drive it: concurrent runs of the program share a  *)
(* directory of cache slots and one vulnerability database, and keep out   *)
(* of each other's way with flock.                                         *)
(*                                                                         *)
(* A lock is taken on a file, not on its name: a lock file is an inode,    *)
(* lockFile[s] is the inode that has the name slot-s.lock now (None: no    *)
(* such name), and an inode that lost its name can still be open, and      *)
(* locked.  An action is one system call on the shared directory, or a     *)
(* group of them made under a lock that excludes the others.  The children *)
(* of a process (the trivy it started) survive it when it is killed.       *)
(***************************************************************************)
EXTENDS Integers, FiniteSets

CONSTANTS Runs,         \* processes; when one is gone the program is run again
          None,
          Size,         \* TrivyCachePool._size: workers of a run
          Limit,        \* slots of the directory: max(4 * size, 16) in the code
          MaxRevision,  \* bound: revisions of the shared database
          Files,        \* files (inodes): enough for all that are open or named
          MaxCrashes    \* bound: runs that are killed

ASSUME RunsFinite == IsFiniteSet(Runs) /\ None \notin Runs
ASSUME EnoughFiles ==
  /\ IsFiniteSet(Files) /\ None \notin Files
  /\ Cardinality(Files) >= Limit + Cardinality(Runs) * (Size + 1)
ASSUME NumbersAreNumbers ==
  /\ Size \in Nat \ {0} /\ Limit \in Nat \ {0}
  /\ MaxRevision \in Nat /\ MaxCrashes \in Nat

Slots     == 0..(Limit - 1)
Revisions == 0..MaxRevision

VARIABLES
  lockFile,   \* the file named slot-s.lock, or None
  locked,     \* which run holds the lock of a file, or None
  dir,        \* revision of the database linked in a slot, or None: no directory
  db,         \* revision of the shared database
  writing,    \* runs whose trivy is downloading the shared database
  dbShared,   \* runs that hold db.lock shared
  dbLocked,   \* the run that holds db.lock exclusively, or None
  pc,         \* where a run is
  index,      \* _lease_slots: the slot it tries
  fd,         \* the lock file it has open, not yet locked or being used
  victims,    \* _prune: the slots still to be tried
  leases,     \* _leases: the slots a run holds, each with its lock file
  fingerprint,\* the database revision a run reports for its scans, or None
  refreshed,  \* the runs whose refresh_db succeeded
  crashes

fileVars == <<lockFile, locked, dir>>
dbVars   == <<db, writing, dbShared, dbLocked>>
runVars  == <<pc, index, fd, victims, leases, fingerprint, refreshed>>
vars     == <<fileVars, dbVars, runVars, crashes>>

Init ==
  /\ lockFile = [s \in Slots |-> None]
  /\ locked = [f \in Files |-> None]
  /\ dir \in {[s \in Slots |-> IF s \in old THEN 0 ELSE None] : old \in SUBSET Slots}
  /\ db = 0
  /\ writing = {}
  /\ dbShared = {}
  /\ dbLocked = None
  /\ pc = [p \in Runs |-> "gone"]
  /\ index = [p \in Runs |-> 0]
  /\ fd = [p \in Runs |-> None]
  /\ victims = [p \in Runs |-> {}]
  /\ leases = [p \in Runs |-> {}]
  /\ fingerprint = [p \in Runs |-> None]
  /\ refreshed = {}
  /\ crashes = 0

Goto(p, l) == pc' = [pc EXCEPT ![p] = l]

Held(p) == {h.slot : h \in leases[p]}

-----------------------------------------------------------------------------
(***************************************************************************)
(* refresh_db: a current database is not downloaded again; a download is   *)
(* made under the exclusive lease of db.lock.  Attempts that fail change   *)
(* nothing, so they are one step.  A run of a process that a killed run's  *)
(* trivy still writes for is another process: Begin waits for its end.     *)
(***************************************************************************)
Begin(p) ==
  /\ pc[p] = "gone"
  /\ p \notin writing
  /\ Goto(p, "start")
  /\ index' = [index EXCEPT ![p] = 0]
  /\ fingerprint' = [fingerprint EXCEPT ![p] = None]
  /\ refreshed' = refreshed \ {p}
  /\ UNCHANGED <<fileVars, dbVars, fd, victims, leases, crashes>>

DbIsCurrent(p) ==
  /\ pc[p] = "start"
  /\ Goto(p, "lease")
  /\ refreshed' = refreshed \cup {p}
  /\ UNCHANGED <<fileVars, dbVars, index, fd, victims, leases, fingerprint, crashes>>

LocksDb(p, free) ==
  /\ pc[p] = "start"
  /\ db < MaxRevision
  /\ free
  /\ dbLocked' = p
  /\ writing' = writing \cup {p}
  /\ Goto(p, "download")
  /\ UNCHANGED <<fileVars, db, dbShared, index, fd, victims, leases, fingerprint, refreshed, crashes>>

\* Mutant of LockDb: the lease of those that link the database is not waited for.
LockDbIgnoringReaders(p) == LocksDb(p, dbLocked = None)

LockDb(p) == LocksDb(p, dbLocked = None /\ dbShared = {})

DownloadEnds(p, closed) ==
  /\ pc[p] = "download"
  /\ writing' = writing \ {p}
  /\ Goto(p, "lease")
  /\ \/ /\ db' \in {db, db + 1} \cap Revisions
        /\ refreshed' = refreshed \cup {p}
        /\ dbLocked' = None
        /\ UNCHANGED fingerprint
     \/ \* every attempt failed: the pool is built by the first scan, and the
        \* scanner is fingerprinted before that
        /\ fingerprint' = [fingerprint EXCEPT ![p] = db]
        /\ dbLocked' = IF closed THEN None ELSE dbLocked
        /\ UNCHANGED <<db, refreshed>>
  /\ UNCHANGED <<fileVars, dbShared, index, fd, victims, leases, crashes>>

\* Mutant of Download: the lease is kept when the download fails.
DownloadKeepsLease(p) == DownloadEnds(p, FALSE)

Download(p) == DownloadEnds(p, TRUE)

-----------------------------------------------------------------------------
(***************************************************************************)
(* _try_lock: open (creating the file when the name is free), then flock   *)
(* without blocking.  Another process may come between the two.            *)
(***************************************************************************)
InUse(f) ==
  \/ \E s \in Slots : lockFile[s] = f
  \/ \E p \in Runs : fd[p] = f \/ f \in {h.file : h \in leases[p]}

Fresh == CHOOSE f \in Files : ~InUse(f)

Opens(p, s) ==
  \/ /\ lockFile[s] # None
     /\ fd' = [fd EXCEPT ![p] = lockFile[s]]
     /\ UNCHANGED lockFile
  \/ /\ lockFile[s] = None
     /\ Fresh \in Files /\ ~InUse(Fresh)     \* EnoughFiles: always so
     /\ fd' = [fd EXCEPT ![p] = Fresh]
     /\ lockFile' = [lockFile EXCEPT ![s] = Fresh]

\* flock is per open file: a run is kept out by its own lock too.
\* Mutants of CanLock: a lock of the process itself does not count; the slots
\* are leased shared.
CanLockShared(p, f) == TRUE

CanLockOwn(p, f) == locked[f] \in {None, p}

CanLock(p, f) == locked[f] = None

(***************************************************************************)
(* _lease_slots: under the shared lease of db.lock, slot after slot until  *)
(* there are enough; the slot is prepared under its lock.                  *)
(***************************************************************************)
ShareDb(p) ==
  /\ pc[p] = "lease"
  /\ dbLocked = None
  /\ dbShared' = dbShared \cup {p}
  /\ Goto(p, "open")
  /\ UNCHANGED <<fileVars, db, writing, dbLocked, index, fd, victims, leases, fingerprint,
                 refreshed, crashes>>

MoreSlots(p) == index[p] < Limit /\ Cardinality(leases[p]) < Size

OpenSlot(p) ==
  /\ pc[p] = "open" /\ MoreSlots(p)
  /\ Opens(p, index[p])
  /\ Goto(p, "lock")
  /\ UNCHANGED <<locked, dir, dbVars, index, victims, leases, fingerprint, refreshed, crashes>>

\* Mutant of NextSlot: the index is advanced twice.
NextSlotTwice(p) ==
  /\ Goto(p, "open")
  /\ index' = [index EXCEPT ![p] = @ + 2]
  /\ fd' = [fd EXCEPT ![p] = None]

NextSlot(p) ==
  /\ Goto(p, "open")
  /\ index' = [index EXCEPT ![p] = @ + 1]
  /\ fd' = [fd EXCEPT ![p] = None]

LockSlot(p) ==
  /\ pc[p] = "lock"
  /\ \/ /\ CanLock(p, fd[p])
        /\ locked' = [locked EXCEPT ![fd[p]] = p]
        /\ Goto(p, "prepare")
        /\ UNCHANGED <<index, fd>>
     \/ /\ ~CanLock(p, fd[p])
        /\ NextSlot(p)
        /\ UNCHANGED locked
  /\ UNCHANGED <<lockFile, dir, dbVars, victims, leases, fingerprint, refreshed, crashes>>

\* _prepare_slot: the directory is made, emptied when too big, and the
\* database linked into it; or one of these fails and the lock is dropped.
PrepareSlot(p) ==
  /\ pc[p] = "prepare"
  /\ \/ /\ dir' = [dir EXCEPT ![index[p]] = db]
        /\ leases' = [leases EXCEPT ![p] = @ \cup {[slot |-> index[p], file |-> fd[p]]}]
        /\ UNCHANGED locked
     \/ /\ locked' = [locked EXCEPT ![fd[p]] = None]
        /\ UNCHANGED <<dir, leases>>
  /\ NextSlot(p)
  /\ UNCHANGED <<lockFile, dbVars, victims, fingerprint, refreshed, crashes>>

\* The lease of db.lock ends, and the slots to prune are listed: those that
\* are stale, or the oldest when there is too much of them.
SlotsLeased(p) ==
  /\ pc[p] = "open" /\ ~MoreSlots(p)
  /\ dbShared' = dbShared \ {p}
  /\ \E old \in SUBSET {s \in Slots : dir[s] # None} : victims' = [victims EXCEPT ![p] = old]
  /\ Goto(p, "prune")
  /\ UNCHANGED <<fileVars, db, writing, dbLocked, index, fd, leases, fingerprint, refreshed, crashes>>

-----------------------------------------------------------------------------
(***************************************************************************)
(* _prune / _remove_if_unleased: a slot whose lock can be taken is removed *)
(* with its lock file, which is then closed.  Before the run uses its      *)
(* slots, and after it released them ("prune_last").                       *)
(***************************************************************************)
PruneStates == {"prune", "prune_last"}

OpenVictim(p, s) ==
  /\ pc[p] \in PruneStates /\ fd[p] = None
  /\ s \in victims[p]
  /\ Opens(p, s)
  /\ index' = [index EXCEPT ![p] = s]
  /\ UNCHANGED <<locked, dir, dbVars, pc, victims, leases, fingerprint, refreshed,
                 crashes>>

VictimDone(p) ==
  /\ victims' = [victims EXCEPT ![p] = @ \ {index[p]}]
  /\ fd' = [fd EXCEPT ![p] = None]

RemoveVictim(p) ==
  /\ pc[p] \in PruneStates /\ fd[p] # None
  /\ \/ /\ CanLock(p, fd[p])
        /\ locked' = [locked EXCEPT ![fd[p]] = p]
        /\ dir' = [dir EXCEPT ![index[p]] = None]
        /\ Goto(p, IF pc[p] = "prune" THEN "unlink" ELSE "unlink_last")
        /\ UNCHANGED <<victims, fd>>
     \/ /\ ~CanLock(p, fd[p])
        /\ VictimDone(p)
        /\ UNCHANGED <<locked, dir, pc>>
  /\ UNCHANGED <<lockFile, dbVars, index, leases, fingerprint, refreshed,
                 crashes>>

UnlinkVictim(p) ==
  /\ pc[p] \in {"unlink", "unlink_last"}
  /\ lockFile' = [lockFile EXCEPT ![index[p]] = None]
  /\ locked' = [locked EXCEPT ![fd[p]] = None]
  /\ VictimDone(p)
  /\ Goto(p, IF pc[p] = "unlink" THEN "prune" ELSE "prune_last")
  /\ UNCHANGED <<dir, dbVars, index, leases, fingerprint, refreshed, crashes>>

-----------------------------------------------------------------------------
(***************************************************************************)
(* Using the pool: while a run is ready its scans rotate through the       *)
(* leased slots; a run without a slot serializes on the shared directory.  *)
(* The fingerprint is read from the shared database, once.                 *)
(***************************************************************************)
Ready(p) ==
  /\ pc[p] = "prune" /\ victims[p] = {} /\ fd[p] = None
  /\ Goto(p, "ready")
  /\ UNCHANGED <<fileVars, dbVars, index, fd, victims, leases, fingerprint, refreshed, crashes>>

Reads(p, at) ==
  /\ pc[p] = at
  /\ fingerprint[p] = None
  /\ fingerprint' = [fingerprint EXCEPT ![p] = db]
  /\ UNCHANGED <<fileVars, dbVars, pc, index, fd, victims, leases, refreshed, crashes>>

\* Mutant of Fingerprint: the revision is read before the slots are built.
FingerprintEarly(p) == Reads(p, "lease")

Fingerprint(p) == Reads(p, "ready")

FreeLocks(p) == [f \in Files |-> IF locked[f] = p THEN None ELSE locked[f]]

\* cleanup: the leases are closed, then the limits are enforced.
Cleanup(p) ==
  /\ pc[p] = "ready" /\ fingerprint[p] # None
  /\ locked' = FreeLocks(p)
  /\ leases' = [leases EXCEPT ![p] = {}]
  /\ \E old \in SUBSET {s \in Slots : dir[s] # None} :
       victims' = [victims EXCEPT ![p] = IF leases[p] = {} THEN {} ELSE old]
  /\ Goto(p, "prune_last")
  /\ UNCHANGED <<lockFile, dir, dbVars, index, fd, fingerprint, refreshed,
                 crashes>>

Exit(p) ==
  /\ pc[p] = "prune_last" /\ victims[p] = {} /\ fd[p] = None
  /\ Goto(p, "gone")
  /\ UNCHANGED <<fileVars, dbVars, index, fd, victims, leases, fingerprint, refreshed, crashes>>

(***************************************************************************)
(* A run is killed: the kernel closes its files, which drops its locks;    *)
(* its children go on.                                                     *)
(***************************************************************************)
Crash(p) ==
  /\ crashes < MaxCrashes
  /\ pc[p] \notin {"start", "gone"}
  /\ crashes' = crashes + 1
  /\ locked' = FreeLocks(p)
  /\ leases' = [leases EXCEPT ![p] = {}]
  /\ dbShared' = dbShared \ {p}
  /\ dbLocked' = IF dbLocked = p THEN None ELSE dbLocked
  /\ victims' = [victims EXCEPT ![p] = {}]
  /\ fd' = [fd EXCEPT ![p] = None]
  /\ Goto(p, "gone")
  /\ UNCHANGED <<lockFile, dir, db, writing, index, fingerprint, refreshed>>

OrphanEnds(p) ==
  /\ pc[p] = "gone" /\ p \in writing
  /\ writing' = writing \ {p}
  /\ db' \in {db, db + 1} \cap Revisions
  /\ UNCHANGED <<fileVars, dbShared, dbLocked, runVars, crashes>>

-----------------------------------------------------------------------------
Starts(p)  == DbIsCurrent(p) \/ LockDb(p) \/ Download(p)
Leases(p)  == ShareDb(p) \/ OpenSlot(p) \/ LockSlot(p) \/ PrepareSlot(p) \/ SlotsLeased(p)
Prunes(p)  == (\E s \in Slots : OpenVictim(p, s)) \/ RemoveVictim(p) \/ UnlinkVictim(p)
Uses(p)    == Ready(p) \/ Fingerprint(p) \/ Cleanup(p) \/ Exit(p)

Next ==
  \/ \E p \in Runs : Begin(p) \/ Starts(p) \/ Leases(p) \/ Prunes(p) \/ Uses(p) \/ Crash(p)
                   \/ OrphanEnds(p)

(***************************************************************************)
(* A process that can go on does; a download and a scan have timeouts, and *)
(* the kernel wakes a process that waits for a lock whenever it is free.   *)
(* Nothing makes the program run, or be killed.                            *)
(***************************************************************************)
Fairness ==
  \A p \in Runs :
    /\ WF_vars(Starts(p) \/ Leases(p) \/ Prunes(p) \/ Uses(p))
    /\ SF_vars(ShareDb(p))

Spec == Init /\ [][Next]_vars

FairSpec == Spec /\ Fairness

-----------------------------------------------------------------------------
Places == {"start", "download", "lease", "open", "lock", "prepare", "prune", "unlink", "ready",
           "prune_last", "unlink_last", "gone"}

Leased == [slot : Slots, file : Files]

\* Every variable has the shape the code gives it.
TypeOK ==
  /\ lockFile \in [Slots -> Files \cup {None}]
  /\ locked \in [Files -> Runs \cup {None}]
  /\ dir \in [Slots -> Revisions \cup {None}]
  /\ db \in Revisions
  /\ writing \in SUBSET Runs /\ dbShared \in SUBSET Runs /\ dbLocked \in Runs \cup {None}
  /\ pc \in [Runs -> Places]
  /\ index \in [Runs -> 0..Limit]
  /\ fd \in [Runs -> Files \cup {None}]
  /\ victims \in [Runs -> SUBSET Slots]
  /\ leases \in [Runs -> SUBSET Leased]
  /\ fingerprint \in [Runs -> Revisions \cup {None}]
  /\ refreshed \in SUBSET Runs
  /\ crashes \in 0..MaxCrashes

\* The lock of a leased slot that still has its name: the lease the rest of
\* the pool can see.
Visible(p, h) == h \in leases[p] /\ lockFile[h.slot] = h.file

\* Of the runs that hold one slot, at most one holds it by the file the
\* others would try: flock itself is never taken twice, whatever is pruned.
OneVisibleHolder ==
  \A p, q \in Runs : \A g \in leases[p], h \in leases[q] :
    g.slot = h.slot /\ Visible(p, g) /\ Visible(q, h) => p = q

\* A slot that is visibly leased loses its directory only to a run that took
\* the lock of a file that has no name any more: neither the run itself,
\* enforcing its own limits, nor a run that locked the file the name stands
\* for, removes what is in use.
RemovedOnlyUnseen ==
  [][\A p, q \in Runs : \A h \in leases[p] :
       Visible(p, h) /\ dir[h.slot] # None /\ dir'[h.slot] = None /\ pc'[q] # pc[q]
         => fd[q] # lockFile[h.slot]]_vars

\* "a slot never links a half-written DB": while no run was killed, no
\* download goes on while a run links the database.
NoHalfWrittenDb == crashes = 0 => writing = {} \/ dbShared = {}

\* "a result filed under the revision from before it would claim an older
\* database than the one that produced it": after a refresh that succeeded,
\* and as long as nobody was killed, a run never reports an older revision
\* than its visibly leased slots have.
NoOlderRevisionClaimed ==
  crashes = 0 =>
    \A p \in refreshed : \A h \in leases[p] :
      Visible(p, h) /\ dir[h.slot] # None /\ fingerprint[p] # None
        => dir[h.slot] <= fingerprint[p]

\* Every run gets its slots, or the shared directory, whatever the others do
\* and whoever is killed: it never waits for a lease nobody gives back.
EveryRunGetsReady == \A p \in Runs : pc[p] \in {"lease", "download"} ~> pc[p] \in {"ready", "gone"}

\* "a slot is used by one holder at a time": the code does not keep it. A run
\* that opened slot-N.lock before another removed it locks a file without a
\* name, and the next run creates and locks a new one.
SlotExclusive == \A p, q \in Runs : p # q => Held(p) \cap Held(q) = {}

=============================================================================
