------------------------------- MODULE CacheMap -------------------------------
(***************************************************************************)
(* What the cache promises (domain/interfaces/cache_store.py): a map that   *)
(* may forget.  A read answers with the value last written under that very *)
(* key, or with a miss; nothing forgotten comes back.                      *)
(***************************************************************************)
CONSTANTS Procs, Keys, None
VARIABLES map,    \* value of each key, None when there is none
          answer  \* what the last read of each process returned
vars == <<map, answer>>

Init ==
  /\ \A k \in Keys : map[k] = map[k]
  /\ answer = [p \in Procs |-> None]

Get(p, k) ==
  /\ \E v \in {map[k], None} : answer' = [answer EXCEPT ![p] = v]
  /\ UNCHANGED map

Put(k) ==
  /\ map'[k] # None
  /\ \A o \in Keys \ {k} : map'[o] = map[o]
  /\ UNCHANGED answer

Forget ==
  /\ \A k \in Keys : map'[k] \in {map[k], None}
  /\ UNCHANGED answer

Next == Forget \/ \E k \in Keys : Put(k) \/ \E p \in Procs : Get(p, k)
Spec == Init /\ [][Next]_vars
=============================================================================
