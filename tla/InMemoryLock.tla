---------------------------- MODULE InMemoryLock ----------------------------
(***************************************************************************)
(* cluster/lock.go: the in-memory DistributedLock.                         *)
(*                                                                         *)
(* A map from keys to reference-counted mutexes, guarded by il.mu.  Every  *)
(* section under il.mu is one action; every operation on a keyMutex's own  *)
(* sync.Mutex is another, because il.mu is not held around it.  A          *)
(* goroutine in Proc makes one call at a time; Lock also starts a helper   *)
(* goroutine that blocks on the mutex, and a Lock given up on its context  *)
(* leaves that helper behind (an orphan).                                  *)
(***************************************************************************)
EXTENDS Integers, FiniteSets

CONSTANTS
  Proc,        \* goroutines calling the lock
  Key,         \* keys they lock
  Mutex,       \* identities of keyMutex objects; reused once unreferenced
  Patient,     \* the callers whose context is never done
  MaxOrphans,  \* bound: no Lock is given up on a mutex with this many orphans
  NoKey, NoMutex, Free, Orphan

ASSUME ProcAssumption == IsFiniteSet(Proc) /\ Patient \subseteq Proc
ASSUME NullAssumption == /\ NoKey \notin Key
                         /\ NoMutex \notin Mutex
                         /\ Free # Orphan /\ Free \notin Proc /\ Orphan \notin Proc
ASSUME BoundAssumption == MaxOrphans \in Nat

VARIABLES
  locks,    \* il.locks: the key's mutex, NoMutex when the key has no entry
  waiters,  \* keyMutex.waiters
  holder,   \* who locked keyMutex.mu: a goroutine (or its helper), an orphan, Free
  orphans,  \* how many helpers of given-up Locks are still blocked on the mutex
  pc, key, km,  \* per goroutine: where it is, and its call's key and keyMutex
  fatal     \* the runtime threw "sync: unlock of unlocked mutex"

vars == <<locks, waiters, holder, orphans, pc, key, km, fatal>>

\* The goroutine is counted in waiters: from getOrCreate to the matching decrement.
RegisteredAt == {"lock", "ctxDone", "try", "tryFail", "held"}
\* Its Lock's helper goroutine runs, and km.mu is the goroutine's once it has it.
HelperAt == {"lock", "ctxDone", "drain"}
\* It has locked km.mu itself.
OwnsAt == {"held", "unlock", "probeUnlock"}
PC == RegisteredAt \cup HelperAt \cup OwnsAt \cup {"idle", "probe"}

Registered(m) == {p \in Proc : pc[p] \in RegisteredAt /\ km[p] = m}
Owners(k) == {p \in Proc : pc[p] = "held" /\ key[p] = k}

Init ==
  /\ locks   = [k \in Key |-> NoMutex]
  /\ waiters = [m \in Mutex |-> 0]
  /\ holder  = [m \in Mutex |-> Free]
  /\ orphans = [m \in Mutex |-> 0]
  /\ pc  = [p \in Proc |-> "idle"]
  /\ key = [p \in Proc |-> NoKey]
  /\ km  = [p \in Proc |-> NoMutex]
  /\ fatal = FALSE

-----------------------------------------------------------------------------
(* Steps shared by the operations                                          *)

\* Garbage: a keyMutex nothing refers to, so that &keyMutex{} may be this one.
Fresh(m) == /\ \A k \in Key : locks[k] # m
            /\ \A p \in Proc : km[p] # m
            /\ orphans[m] = 0
            /\ holder[m] = Free

Goto(p, l) == pc' = [pc EXCEPT ![p] = l]

\* The call returns.
Return(p) == /\ Goto(p, "idle")
             /\ key' = [key EXCEPT ![p] = NoKey]
             /\ km'  = [km EXCEPT ![p] = NoMutex]

\* The count of a keyMutex after &keyMutex{} and km.waiters++; a variant that forgets to count.
NewCountForgotten == 0
NewCount == 1

\* getOrCreate under il.mu, for a call of p on key k that continues at l.
getOrCreate(p, k, l) ==
  /\ pc[p] = "idle"
  /\ Goto(p, l)
  /\ key' = [key EXCEPT ![p] = k]
  /\ \/ /\ locks[k] # NoMutex
        /\ km' = [km EXCEPT ![p] = locks[k]]
        /\ waiters' = [waiters EXCEPT ![locks[k]] = @ + 1]
        /\ UNCHANGED locks
     \/ /\ locks[k] = NoMutex
        /\ \E m \in Mutex :
             /\ Fresh(m)
             /\ locks' = [locks EXCEPT ![k] = m]
             /\ km' = [km EXCEPT ![p] = m]
             /\ waiters' = [waiters EXCEPT ![m] = NewCount]
  /\ UNCHANGED <<holder, orphans, fatal>>

\* The map when a count of n before the decrement ends, and variants: the entry goes
\* always, goes while one more caller counts on it, or is never deleted.
PruneAlways(k, n) == [locks EXCEPT ![k] = NoMutex]
PruneEarly(k, n) == IF n <= 2 THEN [locks EXCEPT ![k] = NoMutex] ELSE locks
PruneNever(k, n) == locks
Prune(k, n) == IF n = 1 THEN [locks EXCEPT ![k] = NoMutex] ELSE locks

\* km.waiters-- and the pruning of k's entry, under il.mu.
Unregister(m, k) ==
  /\ waiters' = [waiters EXCEPT ![m] = @ - 1]
  /\ locks' = Prune(k, waiters[m])

\* km.mu.Unlock(): the mutex does not know who locked it; unlocking a free one is fatal.
MutexUnlock(m) ==
  /\ fatal'  = (fatal \/ holder[m] = Free)
  /\ holder' = [holder EXCEPT ![m] = Free]

-----------------------------------------------------------------------------
(* Lock                                                                    *)

LockRegister(p) == \E k \in Key : getOrCreate(p, k, "lock")

\* The helper's km.mu.Lock() succeeds; its send on the buffered channel follows at once.
HelperAcquire(p) ==
  /\ pc[p] \in HelperAt
  /\ holder[km[p]] = Free
  /\ holder' = [holder EXCEPT ![km[p]] = p]
  /\ UNCHANGED <<locks, waiters, orphans, pc, key, km, fatal>>

\* select: <-acquired; and a variant that does not wait for the helper.
LockAcquiredUnchecked(p) ==
  /\ pc[p] = "lock"
  /\ Goto(p, "held")
  /\ UNCHANGED <<locks, waiters, holder, orphans, key, km, fatal>>
LockAcquired(p) ==
  /\ pc[p] = "lock"
  /\ holder[km[p]] = p
  /\ Goto(p, "held")
  /\ UNCHANGED <<locks, waiters, holder, orphans, key, km, fatal>>

\* select: <-ctx.Done(), which may also win when the helper has sent already.
LockCtxDone(p) ==
  /\ pc[p] = "lock"
  /\ p \notin Patient
  /\ orphans[km[p]] < MaxOrphans
  /\ Goto(p, "ctxDone")
  /\ UNCHANGED <<locks, waiters, holder, orphans, key, km, fatal>>

LockUnregister(p) ==
  /\ pc[p] = "ctxDone"
  /\ Unregister(km[p], key[p])
  /\ Goto(p, "drain")
  /\ UNCHANGED <<holder, orphans, key, km, fatal>>

\* The helper has sent on acquired; a variant that takes it for granted.
HelperHasAssumed(p) == TRUE
HelperHas(p) == holder[km[p]] = p

\* The second select: unlock what the helper acquired, or leave it to an orphan.
LockDrain(p) ==
  /\ pc[p] = "drain"
  /\ \/ /\ HelperHas(p)
        /\ MutexUnlock(km[p])
        /\ UNCHANGED orphans
     \/ /\ ~HelperHas(p)
        /\ orphans' = [orphans EXCEPT ![km[p]] = @ + 1]
        /\ UNCHANGED <<holder, fatal>>
  /\ Return(p)
  /\ UNCHANGED <<locks, waiters>>

OrphanAcquire(m) ==
  /\ orphans[m] > 0
  /\ holder[m] = Free
  /\ holder'  = [holder EXCEPT ![m] = Orphan]
  /\ orphans' = [orphans EXCEPT ![m] = @ - 1]
  /\ UNCHANGED <<locks, waiters, pc, key, km, fatal>>

\* The goroutine that releases for the orphan; a variant without it.
OrphanKeeps(m) == FALSE
OrphanUnlock(m) ==
  /\ holder[m] = Orphan
  /\ MutexUnlock(m)
  /\ UNCHANGED <<locks, waiters, orphans, pc, key, km>>

-----------------------------------------------------------------------------
(* TryLock                                                                 *)

TryLockRegister(p) == \E k \in Key : getOrCreate(p, k, "try")

TryLockMutex(p) ==
  /\ pc[p] = "try"
  /\ \/ /\ holder[km[p]] = Free
        /\ holder' = [holder EXCEPT ![km[p]] = p]
        /\ Goto(p, "held")
     \/ /\ holder[km[p]] # Free
        /\ Goto(p, "tryFail")
        /\ UNCHANGED holder
  /\ UNCHANGED <<locks, waiters, orphans, key, km, fatal>>

TryLockUnregister(p) ==
  /\ pc[p] = "tryFail"
  /\ Unregister(km[p], key[p])
  /\ Return(p)
  /\ UNCHANGED <<holder, orphans, fatal>>

-----------------------------------------------------------------------------
(* Unlock                                                                  *)

\* The section under il.mu, for the key k and not for a mutex the caller remembers.
\* Without an entry Unlock returns at once.
UnlockEntry(p, k) ==
  IF locks[k] = NoMutex
  THEN Return(p) /\ UNCHANGED <<locks, waiters>>
  ELSE /\ Unregister(locks[k], k)
       /\ Goto(p, "unlock")
       /\ key' = [key EXCEPT ![p] = k]
       /\ km'  = [km EXCEPT ![p] = locks[k]]

Unlock(p) ==
  /\ pc[p] = "held"
  /\ UnlockEntry(p, key[p])
  /\ UNCHANGED <<holder, orphans, fatal>>

UnlockMutex(p) ==
  /\ pc[p] = "unlock"
  /\ MutexUnlock(km[p])
  /\ Return(p)
  /\ UNCHANGED <<locks, waiters, orphans>>

-----------------------------------------------------------------------------
(* IsLocked                                                                *)

\* The lookup finds a mutex; finding none returns false and changes nothing.
IsLockedLookup(p) ==
  /\ pc[p] = "idle"
  /\ \E k \in Key :
       /\ locks[k] # NoMutex
       /\ Goto(p, "probe")
       /\ key' = [key EXCEPT ![p] = k]
       /\ km'  = [km EXCEPT ![p] = locks[k]]
  /\ UNCHANGED <<locks, waiters, holder, orphans, fatal>>

IsLockedProbe(p) ==
  /\ pc[p] = "probe"
  /\ \/ /\ holder[km[p]] = Free
        /\ holder' = [holder EXCEPT ![km[p]] = p]
        /\ Goto(p, "probeUnlock")
        /\ UNCHANGED <<key, km>>
     \/ /\ holder[km[p]] # Free
        /\ Return(p)
        /\ UNCHANGED holder
  /\ UNCHANGED <<locks, waiters, orphans, fatal>>

IsLockedUnlock(p) ==
  /\ pc[p] = "probeUnlock"
  /\ MutexUnlock(km[p])
  /\ Return(p)
  /\ UNCHANGED <<locks, waiters, orphans>>

-----------------------------------------------------------------------------
Step(p) ==
  \/ LockRegister(p)    \/ HelperAcquire(p)  \/ LockAcquired(p)
  \/ LockCtxDone(p)     \/ LockUnregister(p) \/ LockDrain(p)
  \/ TryLockRegister(p) \/ TryLockMutex(p)   \/ TryLockUnregister(p)
  \/ Unlock(p)          \/ UnlockMutex(p)
  \/ IsLockedLookup(p)  \/ IsLockedProbe(p)  \/ IsLockedUnlock(p)

Next == \/ \E p \in Proc : Step(p)
        \/ \E m \in Mutex : OrphanAcquire(m) \/ OrphanUnlock(m)

\* The callers unlock what they hold, as WithLock does.
Spec == Init /\ [][Next]_vars

\* A call that has begun goes on, and a holder eventually unlocks (WithLock defers it).
\* sync.Mutex passes the lock on in queue order to one that has waited 1ms (starvation
\* mode), so a blocked Lock cannot be overtaken for ever: strong fairness.
Fairness ==
  /\ \A p \in Proc :
       /\ SF_vars(HelperAcquire(p))
       /\ WF_vars(LockAcquired(p))
       /\ WF_vars(LockUnregister(p) \/ LockDrain(p))
       /\ WF_vars(TryLockMutex(p) \/ TryLockUnregister(p))
       /\ WF_vars(Unlock(p) \/ UnlockMutex(p))
       /\ WF_vars(IsLockedProbe(p) \/ IsLockedUnlock(p))
  /\ \A m \in Mutex : SF_vars(OrphanAcquire(m)) /\ WF_vars(OrphanUnlock(m))

FairSpec == Spec /\ Fairness

\* Callers that break the rule above: one that holds nothing unlocks a key nobody holds.
StrayUnlock(p) ==
  /\ pc[p] = "idle"
  /\ \E k \in Key : Owners(k) = {} /\ UnlockEntry(p, k)
  /\ UNCHANGED <<holder, orphans, fatal>>

StraySpec == Init /\ [][Next \/ \E p \in Proc : StrayUnlock(p)]_vars
-----------------------------------------------------------------------------
(* Properties                                                              *)

\* Every variable has the shape its declaration says; no reference count is negative.
TypeOK ==
  /\ locks   \in [Key -> Mutex \cup {NoMutex}]
  /\ waiters \in [Mutex -> Nat]
  /\ holder  \in [Mutex -> Proc \cup {Free, Orphan}]
  /\ orphans \in [Mutex -> Nat]
  /\ pc  \in [Proc -> PC]
  /\ key \in [Proc -> Key \cup {NoKey}]
  /\ km  \in [Proc -> Mutex \cup {NoMutex}]
  /\ \A p \in Proc : pc[p] # "idle" => key[p] \in Key /\ km[p] \in Mutex
  /\ fatal \in BOOLEAN

\* No two goroutines are between a successful Lock or TryLock and the Unlock of one key,
\* although the key's mutex is dropped from the map and made anew under their feet
\* (getOrCreate, and the pruning in Lock, TryLock and Unlock).
MutualExclusion ==
  \A p, q \in Proc :
    (pc[p] = "held" /\ pc[q] = "held" /\ key[p] = key[q]) => p = q

\* A key has a map entry exactly while some call on it is counted, so the map is bounded by
\* the calls in progress however many keys come and go (lock.go's design note), and a
\* goroutine that still counts on a mutex never has it pruned away.
EntryIffRegistered ==
  \A k \in Key :
    /\ (locks[k] # NoMutex) <=> \E p \in Proc : pc[p] \in RegisteredAt /\ key[p] = k
    /\ \A p \in Proc : (pc[p] \in RegisteredAt /\ key[p] = k) => locks[k] = km[p]

\* Whatever cancellations and probes interleave, the lock itself never unlocks a mutex
\* that is not locked, which would end the program.
NoFatalUnlock == ~fatal

\* A caller that never gives up gets the lock, whatever other callers cancel, probe or
\* leave behind: an abandoned acquisition does not keep the mutex.
PatientAcquires ==
  \A p \in Patient : pc[p] = "lock" ~> pc[p] = "held"

\* The lock implements the interface's promise: a grant only when the key has no owner,
\* a refusal without a trace, a release at Unlock's section under il.mu.
AskingAt == {"lock", "ctxDone", "drain", "try", "tryFail"}
OwnerOf == [k \in Key |-> Owners(k)]
AskedBy == [p \in Proc |-> IF pc[p] \in AskingAt THEN {key[p]} ELSE {}]
KL == INSTANCE KeyLock WITH owner <- OwnerOf, asking <- AskedBy
ImplementsKeyLock == KL!Spec

\* The inductive invariant behind the safety properties, for callers that unlock only what
\* they hold: what the map and the counts say of the calls in progress, and
\* whose a locked mutex is.
CountInv == \A m \in Mutex : waiters[m] = Cardinality(Registered(m))

LocksInjective ==
  \A j, k \in Key : (locks[j] = locks[k] /\ locks[j] # NoMutex) => j = k

RegInv == CountInv /\ EntryIffRegistered /\ LocksInjective

HolderInv ==
  \A p \in Proc :
    /\ pc[p] \in OwnsAt => holder[km[p]] = p
    /\ \A m \in Mutex : holder[m] = p => km[p] = m /\ pc[p] \in HelperAt \cup OwnsAt

IInv == TypeOK /\ RegInv /\ HolderInv /\ NoFatalUnlock
=============================================================================
