------------------------------- MODULE KeyLock -------------------------------
(***************************************************************************)
(* What cluster.DistributedLock promises its callers (the interface in     *)
(* cluster/lock.go): every key has at most one owner, an owner is chosen    *)
(* among callers that asked for the key, and only the owner gives it up.    *)
(* How the keys are kept, counted and pruned is not visible here; see      *)
(* InMemoryLock for the implementation.                                    *)
(***************************************************************************)
CONSTANTS Proc,   \* the goroutines that use the lock
          Key     \* the names they lock

VARIABLES owner,  \* owner[k]: the set of goroutines inside k's critical section
          asking  \* asking[p]: the keys p is currently asking for

vars == <<owner, asking>>

Init == /\ owner  = [k \in Key |-> {}]
        /\ asking = [p \in Proc |-> {}]

\* Lock or TryLock is called.
Ask(p, k) == /\ asking[p] = {}
             /\ \A j \in Key : p \notin owner[j]
             /\ asking' = [asking EXCEPT ![p] = {k}]
             /\ UNCHANGED owner

\* Lock returns nil, or TryLock returns true.
Grant(p, k) == /\ k \in asking[p]
               /\ owner[k] = {}
               /\ owner'  = [owner EXCEPT ![k] = {p}]
               /\ asking' = [asking EXCEPT ![p] = {}]

\* Lock returns the context's error, or TryLock returns false.
Refuse(p, k) == /\ k \in asking[p]
                /\ asking' = [asking EXCEPT ![p] = {}]
                /\ UNCHANGED owner

\* Unlock is called by the owner.
Release(p, k) == /\ owner[k] = {p}
                 /\ owner' = [owner EXCEPT ![k] = {}]
                 /\ UNCHANGED asking

Next == \E p \in Proc, k \in Key :
          Ask(p, k) \/ Grant(p, k) \/ Refuse(p, k) \/ Release(p, k)

Spec == Init /\ [][Next]_vars
=============================================================================
