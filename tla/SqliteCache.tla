----------------------------- MODULE SqliteCache -----------------------------
(***************************************************************************)
(* SQLiteCache: the rows of cache_entries, shared by the threads of a run  *)
(* and by concurrent runs.  Every statement is atomic; get() is two of     *)
(* them when the row it selects has expired: it deletes the row by its id, *)
(* and an upsert that came between kept the id.                            *)
(***************************************************************************)
EXTENDS Naturals, FiniteSetsExt

CONSTANTS Procs, Keys, MaxNow, None

VARIABLES rows,     \* per key: None, or the id, the value and its expiry
          now,      \* bound: MaxNow
          pending,  \* the id of the expired row a get is about to delete
          answer    \* what the last get of each process returned
cacheVars == <<rows, now, pending, answer>>

Present == {k \in Keys : rows[k] # None}
Expired(k) == rows[k].expires < now
Read(k) == IF k \in Present /\ ~Expired(k) THEN rows[k].value ELSE None

\* SQLite gives a new row the largest id and one.
NextId == 1 + Max({0} \cup {rows[k].id : k \in Present})

CacheInit(stored) ==
  /\ rows = stored /\ now = 0
  /\ pending = [p \in Procs |-> None]
  /\ answer = [p \in Procs |-> None]

GetAnyAge(p, k) ==
  /\ pending[p] = None
  /\ answer' = [answer EXCEPT ![p] = IF k \in Present THEN rows[k].value ELSE None]
  /\ UNCHANGED <<rows, now, pending>>
Get(p, k) ==
  /\ pending[p] = None
  /\ answer' = [answer EXCEPT ![p] = Read(k)]
  /\ pending' = [pending EXCEPT ![p] = IF k \in Present /\ Expired(k) THEN rows[k].id ELSE None]
  /\ UNCHANGED <<rows, now>>

\* A database that stays locked or cannot be read: the callers take a miss.
Unreadable(p) ==
  /\ pending[p] = None
  /\ answer' = [answer EXCEPT ![p] = None]
  /\ UNCHANGED <<rows, now, pending>>

DropExpired(p) ==
  /\ pending[p] # None
  /\ rows' = [k \in Keys |-> IF k \in Present /\ rows[k].id = pending[p] THEN None ELSE rows[k]]
  /\ pending' = [pending EXCEPT ![p] = None]
  /\ UNCHANGED <<now, answer>>

Set(k, value, ttl) ==
  /\ rows' = [rows EXCEPT ![k] =
                [id |-> IF @ = None THEN NextId ELSE @.id, value |-> value, expires |-> now + ttl]]
  /\ UNCHANGED <<now, pending, answer>>

Delete(gone) ==
  /\ rows' = [k \in Keys |-> IF k \in gone THEN None ELSE rows[k]]
  /\ UNCHANGED <<now, pending, answer>>

Clear == Delete(Keys)
CleanupExpired == Delete({k \in Present : Expired(k)})

\* What `cache stats` reports.
Stats == [total |-> Cardinality(Present), expired |-> Cardinality({k \in Present : Expired(k)})]

Tick ==
  /\ now < MaxNow
  /\ now' = now + 1
  /\ UNCHANGED <<rows, pending, answer>>

Map == INSTANCE CacheMap WITH map <- [k \in Keys |-> Read(k)]
=============================================================================
