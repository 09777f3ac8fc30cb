------------------------ MODULE InMemoryLock_proofs ------------------------
(***************************************************************************)
(* Proofs about InMemoryLock, for any number of goroutines, keys and       *)
(* mutexes: IInv is inductive, and type correctness, mutual exclusion, the *)
(* bound on the map and the absence of a fatal unlock follow.              *)
(***************************************************************************)
EXTENDS InMemoryLock, FiniteSetTheorems, TLAPS

(***************************************************************************)
(* Sets of goroutines and their sizes                                      *)
(***************************************************************************)

\* Adding a goroutine to a set it is not in makes the set larger by one.
LEMMA CardAdd ==
  ASSUME NEW S \in SUBSET Proc, NEW p \in Proc \ S
  PROVE  Cardinality(S \cup {p}) = Cardinality(S) + 1
<1>1. IsFiniteSet(S)
  BY ProcAssumption, FS_Subset
<1> QED BY <1>1, FS_AddElement

\* Removing a member makes the set smaller by one, and empty exactly when it was alone.
LEMMA CardRemove ==
  ASSUME NEW S \in SUBSET Proc, NEW p \in S
  PROVE  /\ Cardinality(S \ {p}) = Cardinality(S) - 1
         /\ Cardinality(S) \in Nat
         /\ Cardinality(S \ {p}) \in Nat
         /\ Cardinality(S) = 1 <=> S \ {p} = {}
<1>1. IsFiniteSet(S) /\ IsFiniteSet(S \ {p})
  BY ProcAssumption, FS_Subset
<1>2. Cardinality(S) \in Nat /\ Cardinality(S \ {p}) \in Nat
  BY <1>1, FS_CardinalityType
<1>3. Cardinality(S \ {p}) = Cardinality(S) - 1
  BY <1>1, FS_RemoveElement
<1>4. Cardinality(S \ {p}) = 0 <=> S \ {p} = {}
  BY <1>1, FS_EmptySet
<1> QED BY <1>2, <1>3, <1>4

\* No goroutine is counted in an empty set.
LEMMA CardEmpty == Cardinality({}) = 0
  BY FS_EmptySet

(***************************************************************************)
(* The registration invariant                                              *)
(***************************************************************************)

\* A step that changes neither the map nor the counts, and neither starts nor ends
\* anybody's registration, keeps the registration invariant.
LEMMA RegFrame ==
  ASSUME RegInv, UNCHANGED <<locks, waiters>>,
         \A q \in Proc :
           /\ pc'[q] \in RegisteredAt <=> pc[q] \in RegisteredAt
           /\ pc[q] \in RegisteredAt => key'[q] = key[q] /\ km'[q] = km[q]
  PROVE  RegInv'
<1>1. \A m \in Mutex : Registered(m)' = Registered(m)
  BY DEF Registered
<1>2. CountInv'
  BY <1>1 DEF RegInv, CountInv
<1>3. EntryIffRegistered'
  BY DEF RegInv, EntryIffRegistered
<1>4. LocksInjective'
  BY DEF RegInv, LocksInjective
<1> QED BY <1>2, <1>3, <1>4 DEF RegInv

\* getOrCreate counts the caller on the key's one mutex, new or old.
LEMMA RegCreate ==
  ASSUME TypeOK, RegInv, NEW p \in Proc, NEW k \in Key, NEW l \in {"lock", "try"},
         getOrCreate(p, k, l)
  PROVE  RegInv'
<1> USE DEF TypeOK, Goto, NewCount
<1>1. /\ pc[p] = "idle"
      /\ pc' = [pc EXCEPT ![p] = l]
      /\ key' = [key EXCEPT ![p] = k]
  BY DEF getOrCreate
<1>2. l \in RegisteredAt /\ "idle" \notin RegisteredAt
  BY DEF RegisteredAt
<1>3. CASE /\ locks[k] # NoMutex
           /\ km' = [km EXCEPT ![p] = locks[k]]
           /\ waiters' = [waiters EXCEPT ![locks[k]] = @ + 1]
           /\ UNCHANGED locks
  <2>1. locks[k] \in Mutex
    BY <1>3
  <2>2. Registered(locks[k])' = Registered(locks[k]) \cup {p}
    BY <1>1, <1>2, <1>3 DEF Registered
  <2>3. p \notin Registered(locks[k]) /\ Registered(locks[k]) \in SUBSET Proc
    BY <1>1, <1>2 DEF Registered
  <2>4. \A m \in Mutex \ {locks[k]} : Registered(m)' = Registered(m)
    BY <1>1, <1>2, <1>3 DEF Registered
  <2>5. CountInv'
    BY <1>3, <2>1, <2>2, <2>3, <2>4, CardAdd DEF CountInv, RegInv
  <2>6. EntryIffRegistered'
    BY <1>1, <1>2, <1>3 DEF RegInv, EntryIffRegistered
  <2>7. LocksInjective'
    BY <1>3 DEF RegInv, LocksInjective
  <2> QED BY <2>5, <2>6, <2>7 DEF RegInv
<1>4. CASE /\ locks[k] = NoMutex
           /\ \E m \in Mutex :
                /\ Fresh(m)
                /\ locks' = [locks EXCEPT ![k] = m]
                /\ km' = [km EXCEPT ![p] = m]
                /\ waiters' = [waiters EXCEPT ![m] = 1]
  <2>1. PICK m \in Mutex :
                /\ Fresh(m)
                /\ locks' = [locks EXCEPT ![k] = m]
                /\ km' = [km EXCEPT ![p] = m]
                /\ waiters' = [waiters EXCEPT ![m] = 1]
    BY <1>4
  <2>2. Registered(m) = {} /\ Registered(m)' = {p}
    BY <1>1, <1>2, <2>1 DEF Registered, Fresh
  <2>3. \A n \in Mutex \ {m} : Registered(n)' = Registered(n)
    BY <1>1, <1>2, <2>1 DEF Registered
  <2>4. Cardinality({p}) = 1
    BY FS_Singleton
  <2>5. CountInv'
    BY <2>1, <2>2, <2>3, <2>4 DEF CountInv, RegInv
  <2>6. \A q \in Proc : pc[q] \in RegisteredAt => key[q] # k
    BY <1>4 DEF RegInv, EntryIffRegistered
  <2>7. EntryIffRegistered'
    BY <1>1, <1>2, <2>1, <2>6, NullAssumption DEF RegInv, EntryIffRegistered
  <2>8. LocksInjective'
    BY <1>4, <2>1 DEF RegInv, LocksInjective, Fresh
  <2> QED BY <2>5, <2>7, <2>8 DEF RegInv
<1> QED BY <1>3, <1>4 DEF getOrCreate

\* The decrement, with the pruning of the entry at zero, by a registered caller for its own
\* key and mutex: the count stays exact and the entry goes exactly with its last caller.
LEMMA RegRemove ==
  ASSUME TypeOK, RegInv, NEW p \in Proc, NEW l \in PC \ RegisteredAt,
         pc[p] \in RegisteredAt, Unregister(km[p], key[p]), Goto(p, l),
         \A q \in Proc \ {p} : key'[q] = key[q] /\ km'[q] = km[q]
  PROVE  /\ RegInv'
         /\ locks' \in [Key -> Mutex \cup {NoMutex}]
         /\ waiters' \in [Mutex -> Nat]
<1> USE DEF TypeOK, Goto
<1>1. "idle" \notin RegisteredAt /\ l \notin RegisteredAt
  BY DEF RegisteredAt
<1>2. km[p] \in Mutex /\ key[p] \in Key
  BY <1>1
<1>3. PICK m \in Mutex, k \in Key : m = km[p] /\ k = key[p]
  BY <1>2
<1>4. p \in Registered(m) /\ Registered(m) \in SUBSET Proc
  BY <1>3 DEF Registered
<1>5. locks[k] = m
  BY <1>3 DEF RegInv, EntryIffRegistered
<1>6. /\ Cardinality(Registered(m) \ {p}) = waiters[m] - 1
      /\ waiters[m] = 1 <=> Registered(m) \ {p} = {}
      /\ waiters[m] - 1 \in Nat
  <2>1. waiters[m] = Cardinality(Registered(m))
    BY DEF RegInv, CountInv
  <2> QED BY <1>4, <2>1, CardRemove
<1>7. /\ waiters' = [waiters EXCEPT ![m] = @ - 1]
      /\ locks' = IF waiters[m] = 1 THEN [locks EXCEPT ![k] = NoMutex] ELSE locks
  BY <1>3 DEF Unregister, Prune
<1>8. Registered(m)' = Registered(m) \ {p}
  BY <1>1 DEF Registered
<1>9. \A n \in Mutex \ {m} : Registered(n)' = Registered(n)
  BY <1>1, <1>3 DEF Registered
<1>10. CountInv'
  BY <1>6, <1>7, <1>8, <1>9 DEF CountInv, RegInv
<1>11. LocksInjective'
  BY <1>7 DEF RegInv, LocksInjective
<1>12. EntryIffRegistered'
  <2>1. CASE waiters[m] = 1
    <3>1. \A q \in Proc \ {p} : pc[q] \in RegisteredAt => key[q] # k
      BY <1>5, <1>6, <2>1 DEF Registered, RegInv, EntryIffRegistered
    <3> QED BY <1>1, <1>3, <1>7, <2>1, <3>1 DEF RegInv, EntryIffRegistered
  <2>2. CASE waiters[m] # 1
    <3>1. PICK q \in Proc \ {p} : pc[q] \in RegisteredAt /\ km[q] = m
      BY <1>6, <2>2 DEF Registered
    <3>2. key[q] \in Key /\ locks[key[q]] = m
      BY <1>1, <3>1 DEF RegInv, EntryIffRegistered
    <3>3. key[q] = k
      BY <1>5, <3>2, NullAssumption DEF RegInv, LocksInjective
    <3> QED BY <1>1, <1>3, <1>5, <1>7, <2>2, <3>1, <3>3, NullAssumption
            DEF RegInv, EntryIffRegistered
  <2> QED BY <2>1, <2>2
<1>13. /\ locks' \in [Key -> Mutex \cup {NoMutex}]
       /\ waiters' \in [Mutex -> Nat]
  BY <1>6, <1>7
<1> QED BY <1>10, <1>11, <1>12, <1>13 DEF RegInv

(***************************************************************************)
(* The steps                                                               *)
(***************************************************************************)

\* The initial state.
LEMMA InitIInv == Init => IInv
<1> SUFFICES ASSUME Init PROVE IInv
  OBVIOUS
<1> USE DEF Init
<1>1. TypeOK
  BY DEF TypeOK, PC
<1>2. "idle" \notin RegisteredAt /\ "idle" \notin OwnsAt
  BY DEF RegisteredAt, OwnsAt
<1>3. CountInv
  <2>1. \A m \in Mutex : Registered(m) = {}
    BY <1>2 DEF Registered
  <2> QED BY <2>1, CardEmpty DEF CountInv
<1>4. EntryIffRegistered /\ LocksInjective
  BY <1>2 DEF EntryIffRegistered, LocksInjective
<1>5. HolderInv
  BY <1>2, NullAssumption DEF HolderInv
<1> QED BY <1>1, <1>3, <1>4, <1>5 DEF IInv, RegInv, NoFatalUnlock

\* getOrCreate, for Lock and for TryLock.
LEMMA CreateStep ==
  ASSUME IInv, NEW p \in Proc, NEW k \in Key, NEW l \in {"lock", "try"},
         getOrCreate(p, k, l)
  PROVE  IInv'
<1>1. RegInv'
  BY RegCreate DEF IInv
<1>2. /\ TypeOK
      /\ pc[p] = "idle"
      /\ pc' = [pc EXCEPT ![p] = l]
      /\ key' = [key EXCEPT ![p] = k]
      /\ UNCHANGED <<holder, orphans, fatal>>
  BY DEF getOrCreate, Goto, IInv
<1>3. PICK m \in Mutex : km' = [km EXCEPT ![p] = m]
  BY <1>2 DEF getOrCreate, TypeOK
<1>4. /\ locks' \in [Key -> Mutex \cup {NoMutex}]
      /\ waiters' \in [Mutex -> Nat]
  BY <1>2 DEF getOrCreate, NewCount, TypeOK
<1>5. TypeOK'
  BY <1>2, <1>3, <1>4 DEF TypeOK, PC, RegisteredAt
<1>6. HolderInv'
  BY <1>2, <1>3 DEF TypeOK, IInv, HolderInv, HelperAt, OwnsAt
<1> QED BY <1>1, <1>2, <1>5, <1>6 DEF IInv, NoFatalUnlock

\* Every other step of a goroutine that calls the lock as it should.
LEMMA ProcStep ==
  ASSUME IInv, NEW p \in Proc, Step(p)
  PROVE  IInv'
<1> USE DEF IInv
<1>t. ASSUME NEW l \in PC \ {"idle"}, Goto(p, l), UNCHANGED <<key, km>>, pc[p] # "idle"
      PROVE  /\ pc' \in [Proc -> PC]
             /\ \A q \in Proc : pc'[q] # "idle" => key'[q] \in Key /\ km'[q] \in Mutex
  BY <1>t DEF TypeOK, Goto
<1>r. ASSUME Return(p)
      PROVE  /\ pc' \in [Proc -> PC] /\ key' \in [Proc -> Key \cup {NoKey}]
             /\ km' \in [Proc -> Mutex \cup {NoMutex}]
             /\ \A q \in Proc : pc'[q] # "idle" => key'[q] \in Key /\ km'[q] \in Mutex
             /\ Goto(p, "idle")
             /\ \A q \in Proc \ {p} : pc'[q] = pc[q] /\ key'[q] = key[q] /\ km'[q] = km[q]
             /\ pc'[p] = "idle"
  BY <1>r DEF TypeOK, Goto, Return, PC
<1>1. CASE LockRegister(p)
  BY <1>1, CreateStep DEF LockRegister
<1>2. CASE HelperAcquire(p)
  <2> USE <1>2 DEF HelperAcquire
  <2>1. km[p] \in Mutex
    BY DEF TypeOK, HelperAt
  <2>2. TypeOK'
    BY <2>1 DEF TypeOK
  <2>3. RegInv'
    BY RegFrame
  <2>4. HolderInv'
    BY <2>1, NullAssumption DEF TypeOK, HolderInv
  <2> QED BY <2>2, <2>3, <2>4 DEF NoFatalUnlock
<1>3. CASE LockAcquired(p)
  <2> USE <1>3 DEF LockAcquired
  <2>1. TypeOK'
    BY <1>t DEF TypeOK, PC, RegisteredAt
  <2>2. RegInv'
    BY RegFrame DEF Goto, TypeOK, RegisteredAt
  <2>3. HolderInv'
    BY DEF TypeOK, HolderInv, Goto, OwnsAt, HelperAt
  <2> QED BY <2>1, <2>2, <2>3 DEF NoFatalUnlock
<1>4. CASE LockCtxDone(p)
  <2> USE <1>4 DEF LockCtxDone
  <2>1. TypeOK'
    BY <1>t DEF TypeOK, PC, RegisteredAt
  <2>2. RegInv'
    BY RegFrame DEF Goto, TypeOK, RegisteredAt
  <2>3. HolderInv'
    BY DEF TypeOK, HolderInv, Goto, OwnsAt, HelperAt
  <2> QED BY <2>1, <2>2, <2>3 DEF NoFatalUnlock
<1>5. CASE LockUnregister(p)
  <2> USE <1>5 DEF LockUnregister
  <2>1. /\ RegInv'
        /\ locks' \in [Key -> Mutex \cup {NoMutex}]
        /\ waiters' \in [Mutex -> Nat]
    BY RegRemove DEF PC, RegisteredAt, HelperAt
  <2>2. TypeOK'
    BY <1>t, <2>1 DEF TypeOK, PC, HelperAt
  <2>3. HolderInv'
    BY DEF TypeOK, HolderInv, Goto, OwnsAt, HelperAt
  <2> QED BY <2>1, <2>2, <2>3 DEF NoFatalUnlock
<1>6. CASE LockDrain(p)
  <2> USE <1>6 DEF LockDrain, HelperHas, MutexUnlock
  <2>1. km[p] \in Mutex
    BY DEF TypeOK
  <2>2. TypeOK' /\ NoFatalUnlock'
    BY <1>r, <2>1, NullAssumption DEF TypeOK, NoFatalUnlock
  <2>3. RegInv'
    BY <1>r, RegFrame DEF RegisteredAt
  <2>4. HolderInv'
    BY <1>r, <2>1, NullAssumption DEF TypeOK, HolderInv, OwnsAt, HelperAt
  <2> QED BY <2>2, <2>3, <2>4
<1>7. CASE TryLockRegister(p)
  BY <1>7, CreateStep DEF TryLockRegister
<1>8. CASE TryLockMutex(p)
  <2> USE <1>8 DEF TryLockMutex
  <2>1. km[p] \in Mutex
    BY DEF TypeOK
  <2>2. TypeOK'
    BY <1>t, <2>1 DEF TypeOK, PC, RegisteredAt
  <2>3. RegInv'
    BY RegFrame DEF Goto, TypeOK, RegisteredAt
  <2>4. HolderInv'
    BY <2>1, NullAssumption DEF TypeOK, HolderInv, Goto, OwnsAt, HelperAt
  <2> QED BY <2>2, <2>3, <2>4 DEF NoFatalUnlock
<1>9. CASE TryLockUnregister(p)
  <2> USE <1>9 DEF TryLockUnregister
  <2>1. /\ RegInv'
        /\ locks' \in [Key -> Mutex \cup {NoMutex}]
        /\ waiters' \in [Mutex -> Nat]
    BY <1>r, RegRemove DEF PC, RegisteredAt, HelperAt
  <2>2. TypeOK'
    BY <1>r, <2>1 DEF TypeOK
  <2>3. HolderInv'
    BY <1>r DEF TypeOK, HolderInv, OwnsAt, HelperAt
  <2> QED BY <2>1, <2>2, <2>3 DEF NoFatalUnlock
<1>10. CASE Unlock(p)
  <2> USE <1>10 DEF Unlock
  <2>1. /\ pc[p] \in RegisteredAt /\ key[p] \in Key /\ km[p] \in Mutex
        /\ locks[key[p]] = km[p] /\ holder[km[p]] = p
    BY DEF RegisteredAt, OwnsAt, TypeOK, RegInv, EntryIffRegistered, HolderInv
  <2>2. /\ Unregister(km[p], key[p]) /\ Goto(p, "unlock")
        /\ key' = key /\ km' = km
    BY <2>1, NullAssumption DEF UnlockEntry, TypeOK
  <2>3. /\ RegInv'
        /\ locks' \in [Key -> Mutex \cup {NoMutex}]
        /\ waiters' \in [Mutex -> Nat]
    BY <2>1, <2>2, RegRemove DEF PC, RegisteredAt, OwnsAt
  <2>4. TypeOK'
    BY <1>t, <2>2, <2>3 DEF TypeOK, PC, OwnsAt
  <2>5. HolderInv'
    BY <2>1, <2>2 DEF TypeOK, HolderInv, OwnsAt, HelperAt, Goto
  <2> QED BY <2>3, <2>4, <2>5 DEF NoFatalUnlock
<1>11. CASE UnlockMutex(p)
  <2> USE <1>11 DEF UnlockMutex, MutexUnlock
  <2>1. km[p] \in Mutex /\ holder[km[p]] = p
    BY DEF TypeOK, HolderInv, OwnsAt
  <2>2. TypeOK' /\ NoFatalUnlock'
    BY <1>r, <2>1, NullAssumption DEF TypeOK, NoFatalUnlock
  <2>3. RegInv'
    BY <1>r, RegFrame DEF RegisteredAt
  <2>4. HolderInv'
    BY <1>r, <2>1, NullAssumption DEF TypeOK, HolderInv, OwnsAt, HelperAt
  <2> QED BY <2>2, <2>3, <2>4
<1>12. CASE IsLockedLookup(p)
  <2> USE <1>12 DEF IsLockedLookup
  <2>1. PICK k \in Key :
          /\ locks[k] # NoMutex
          /\ Goto(p, "probe")
          /\ key' = [key EXCEPT ![p] = k]
          /\ km'  = [km EXCEPT ![p] = locks[k]]
    OBVIOUS
  <2>2. TypeOK'
    BY <2>1 DEF TypeOK, PC, Goto
  <2>3. RegInv'
    BY <2>1, RegFrame DEF Goto, TypeOK, RegisteredAt
  <2>4. HolderInv'
    BY <2>1 DEF TypeOK, HolderInv, Goto, OwnsAt, HelperAt
  <2> QED BY <2>2, <2>3, <2>4 DEF NoFatalUnlock
<1>13. CASE IsLockedProbe(p)
  <2> USE <1>13 DEF IsLockedProbe
  <2>1. km[p] \in Mutex
    BY DEF TypeOK
  <2>2. CASE holder[km[p]] = Free
    <3>1. /\ holder' = [holder EXCEPT ![km[p]] = p]
          /\ Goto(p, "probeUnlock") /\ UNCHANGED <<key, km>>
      BY <2>2
    <3>2. TypeOK'
      BY <1>t, <2>1, <3>1 DEF TypeOK, PC, OwnsAt
    <3>3. RegInv'
      BY <3>1, RegFrame DEF Goto, TypeOK, RegisteredAt
    <3>4. HolderInv'
      BY <2>1, <2>2, <3>1, NullAssumption DEF TypeOK, HolderInv, Goto, OwnsAt, HelperAt
    <3> QED BY <3>2, <3>3, <3>4 DEF NoFatalUnlock
  <2>3. CASE holder[km[p]] # Free
    <3>1. Return(p) /\ UNCHANGED holder
      BY <2>3
    <3>2. TypeOK'
      BY <1>r, <3>1 DEF TypeOK
    <3>3. RegInv'
      BY <1>r, <3>1, RegFrame DEF RegisteredAt
    <3>4. HolderInv'
      BY <1>r, <3>1 DEF TypeOK, HolderInv, OwnsAt, HelperAt
    <3> QED BY <3>2, <3>3, <3>4 DEF NoFatalUnlock
  <2> QED BY <2>2, <2>3
<1>14. CASE IsLockedUnlock(p)
  <2> USE <1>14 DEF IsLockedUnlock, MutexUnlock
  <2>1. km[p] \in Mutex /\ holder[km[p]] = p
    BY DEF TypeOK, HolderInv, OwnsAt
  <2>2. TypeOK' /\ NoFatalUnlock'
    BY <1>r, <2>1, NullAssumption DEF TypeOK, NoFatalUnlock
  <2>3. RegInv'
    BY <1>r, RegFrame DEF RegisteredAt
  <2>4. HolderInv'
    BY <1>r, <2>1, NullAssumption DEF TypeOK, HolderInv, OwnsAt, HelperAt
  <2> QED BY <2>2, <2>3, <2>4
<1> QED
  BY <1>1, <1>2, <1>3, <1>4, <1>5, <1>6, <1>7, <1>8, <1>9, <1>10, <1>11, <1>12,
     <1>13, <1>14 DEF Step

\* The helpers that given-up Locks left behind.
LEMMA OrphanStep ==
  ASSUME IInv, NEW m \in Mutex, OrphanAcquire(m) \/ OrphanUnlock(m)
  PROVE  IInv'
<1> USE DEF IInv
<1>1. CASE OrphanAcquire(m)
  <2> USE <1>1 DEF OrphanAcquire
  <2>1. TypeOK'
    BY DEF TypeOK
  <2>2. RegInv'
    BY RegFrame
  <2>3. HolderInv'
    BY NullAssumption DEF TypeOK, HolderInv, OwnsAt
  <2> QED BY <2>1, <2>2, <2>3 DEF NoFatalUnlock
<1>2. CASE OrphanUnlock(m)
  <2> USE <1>2 DEF OrphanUnlock, MutexUnlock
  <2>1. TypeOK' /\ NoFatalUnlock'
    BY NullAssumption DEF TypeOK, NoFatalUnlock
  <2>2. RegInv'
    BY RegFrame
  <2>3. HolderInv'
    BY NullAssumption DEF TypeOK, HolderInv, OwnsAt
  <2> QED BY <2>1, <2>2, <2>3
<1> QED BY <1>1, <1>2

(***************************************************************************)
(* The theorems                                                            *)
(***************************************************************************)

\* IInv holds in every reachable state.
THEOREM Inductive == Spec => []IInv
<1>1. IInv /\ [Next]_vars => IInv'
  <2> SUFFICES ASSUME IInv, [Next]_vars PROVE IInv'
    OBVIOUS
  <2>1. CASE UNCHANGED vars
    BY <2>1, RegFrame DEF vars, IInv, TypeOK, HolderInv, NoFatalUnlock
  <2>2. CASE Next
    BY <2>2, ProcStep, OrphanStep DEF Next
  <2> QED BY <2>1, <2>2
<1> QED BY InitIInv, <1>1, PTL DEF Spec

\* Type correctness of the lock's state.
THEOREM Typing == Spec => []TypeOK
<1>1. IInv => TypeOK
  BY DEF IInv
<1> QED BY <1>1, Inductive, PTL

\* No two goroutines are ever inside the critical section of one key.
THEOREM Exclusion == Spec => []MutualExclusion
<1>1. IInv => MutualExclusion
  BY DEF IInv, TypeOK, RegInv, EntryIffRegistered, HolderInv, MutualExclusion,
         RegisteredAt, OwnsAt
<1> QED BY <1>1, Inductive, PTL

\* The map holds an entry exactly for the keys with a call in progress.
THEOREM EntriesBounded == Spec => []EntryIffRegistered
<1>1. IInv => EntryIffRegistered
  BY DEF IInv, RegInv
<1> QED BY <1>1, Inductive, PTL

\* The lock never unlocks a mutex that is not locked.
THEOREM NeverFatal == Spec => []NoFatalUnlock
<1>1. IInv => NoFatalUnlock
  BY DEF IInv
<1> QED BY <1>1, Inductive, PTL

(***************************************************************************)
(* Refinement of KeyLock                                                   *)
(***************************************************************************)

\* A step that moves nobody into or out of a critical section leaves the owners alone.
LEMMA SameOwners ==
  ASSUME \A q \in Proc :
           /\ pc'[q] = "held" <=> pc[q] = "held"
           /\ pc[q] = "held" => key'[q] = key[q]
  PROVE  OwnerOf' = OwnerOf
<1>1. \A k \in Key : Owners(k)' = Owners(k)
  BY DEF Owners
<1> QED BY <1>1 DEF OwnerOf

\* A step after which everybody asks for the keys they asked for.
LEMMA SameAsking ==
  ASSUME \A q \in Proc :
           /\ pc'[q] \in AskingAt <=> pc[q] \in AskingAt
           /\ pc[q] \in AskingAt => key'[q] = key[q]
  PROVE  AskedBy' = AskedBy
  BY DEF AskedBy, AskingAt

\* Registering a Lock or a TryLock asks for the key.
LEMMA AskRefines ==
  ASSUME IInv, NEW p \in Proc, NEW k \in Key, NEW l \in {"lock", "try"},
         getOrCreate(p, k, l)
  PROVE  KL!Next
<1>1. /\ TypeOK
      /\ pc[p] = "idle"
      /\ pc' = [pc EXCEPT ![p] = l]
      /\ key' = [key EXCEPT ![p] = k]
  BY DEF getOrCreate, Goto, IInv
<1>2. "idle" \notin AskingAt /\ l \in AskingAt /\ l # "held"
  BY DEF AskingAt
<1>3. OwnerOf' = OwnerOf
  BY <1>1, <1>2, SameOwners DEF TypeOK
<1>4. AskedBy[p] = {} /\ \A j \in Key : p \notin OwnerOf[j]
  BY <1>1, <1>2 DEF AskedBy, OwnerOf, Owners
<1>5. AskedBy' = [AskedBy EXCEPT ![p] = {k}]
  BY <1>1, <1>2 DEF AskedBy, TypeOK
<1>6. KL!Ask(p, k)
  BY <1>3, <1>4, <1>5 DEF KL!Ask
<1> QED BY <1>6 DEF KL!Next

\* Taking the mutex of the key, or learning that the helper has it, grants the key: nobody
\* else can be inside, because the mutex is the only one the key's callers count on.
LEMMA GrantRefines ==
  ASSUME IInv, IInv', NEW p \in Proc, pc[p] \in {"lock", "try"},
         pc' = [pc EXCEPT ![p] = "held"], UNCHANGED <<key, km>>
  PROVE  KL!Next
<1>1. PICK k \in Key : k = key[p]
  BY DEF IInv, TypeOK
<1>2. TypeOK
  BY DEF IInv
<1>3. \A q \in Proc \ {p} : ~(pc[q] = "held" /\ key[q] = k)
  BY <1>1, <1>2 DEF IInv, TypeOK, RegInv, EntryIffRegistered, HolderInv, RegisteredAt, OwnsAt
<1>4. Owners(k) = {} /\ Owners(k)' = {p}
  BY <1>1, <1>2, <1>3 DEF Owners, TypeOK
<1>5. \A j \in Key \ {k} : Owners(j)' = Owners(j)
  BY <1>1, <1>2 DEF Owners, TypeOK
<1>6. OwnerOf[k] = {} /\ OwnerOf' = [OwnerOf EXCEPT ![k] = {p}]
  BY <1>4, <1>5 DEF OwnerOf
<1>7. k \in AskedBy[p] /\ AskedBy' = [AskedBy EXCEPT ![p] = {}]
  BY <1>1, <1>2 DEF AskedBy, AskingAt, TypeOK
<1>8. KL!Grant(p, k)
  BY <1>6, <1>7 DEF KL!Grant
<1> QED BY <1>8 DEF KL!Next

\* Returning the context's error, or false, is a refusal.
LEMMA RefuseRefines ==
  ASSUME IInv, NEW p \in Proc, pc[p] \in {"drain", "tryFail"}, Return(p)
  PROVE  KL!Next
<1>1. PICK k \in Key : k = key[p]
  BY DEF IInv, TypeOK
<1>2. TypeOK
  BY DEF IInv
<1>3. OwnerOf' = OwnerOf
  BY <1>2, SameOwners DEF Return, Goto, TypeOK
<1>4. k \in AskedBy[p] /\ AskedBy' = [AskedBy EXCEPT ![p] = {}]
  BY <1>1, <1>2 DEF Return, Goto, AskedBy, AskingAt, TypeOK
<1>5. KL!Refuse(p, k)
  BY <1>3, <1>4 DEF KL!Refuse
<1> QED BY <1>5 DEF KL!Next

\* Unlock's section under il.mu releases the key.
LEMMA ReleaseRefines ==
  ASSUME IInv, NEW p \in Proc, Unlock(p)
  PROVE  KL!Next
<1>1. PICK k \in Key : k = key[p]
  BY DEF IInv, TypeOK, Unlock
<1>2. TypeOK /\ pc[p] = "held" /\ locks[k] = km[p] /\ km[p] \in Mutex
  BY <1>1 DEF IInv, TypeOK, RegInv, EntryIffRegistered, RegisteredAt, Unlock
<1>3. pc' = [pc EXCEPT ![p] = "unlock"] /\ key' = key
  BY <1>1, <1>2, NullAssumption DEF Unlock, UnlockEntry, Goto, TypeOK
<1>4. \A q \in Proc : (pc[q] = "held" /\ key[q] = k) => q = p
  BY <1>1, <1>2 DEF IInv, TypeOK, RegInv, EntryIffRegistered, HolderInv, RegisteredAt, OwnsAt
<1>5. Owners(k) = {p} /\ Owners(k)' = {}
  BY <1>1, <1>2, <1>3, <1>4 DEF Owners, TypeOK
<1>6. \A j \in Key \ {k} : Owners(j)' = Owners(j)
  BY <1>1, <1>2, <1>3 DEF Owners, TypeOK
<1>7. OwnerOf[k] = {p} /\ OwnerOf' = [OwnerOf EXCEPT ![k] = {}]
  BY <1>5, <1>6 DEF OwnerOf
<1>8. AskedBy' = AskedBy
  BY <1>2, <1>3, SameAsking DEF AskingAt, TypeOK
<1>9. KL!Release(p, k)
  BY <1>7, <1>8 DEF KL!Release
<1> QED BY <1>9 DEF KL!Next

\* Everything else is invisible to the callers.
LEMMA QuietStep ==
  ASSUME TypeOK, NEW p \in Proc,
         \A q \in Proc \ {p} : pc'[q] = pc[q] /\ key'[q] = key[q],
         pc[p] # "held" /\ pc'[p] # "held",
         pc'[p] \in AskingAt <=> pc[p] \in AskingAt,
         pc[p] \in AskingAt => key'[p] = key[p]
  PROVE  UNCHANGED KL!vars
<1>1. OwnerOf' = OwnerOf
  BY SameOwners
<1>2. AskedBy' = AskedBy
  BY SameAsking
<1> QED BY <1>1, <1>2 DEF KL!vars

\* Every step of the lock is a step of KeyLock or changes nothing there.
LEMMA StepRefines ==
  ASSUME IInv, IInv', [Next]_vars
  PROVE  [KL!Next]_(KL!vars)
<1> USE DEF IInv
<1>1. CASE UNCHANGED vars
  BY <1>1, SameOwners, SameAsking DEF vars, KL!vars
<1>2. ASSUME NEW m \in Mutex, OrphanAcquire(m) \/ OrphanUnlock(m)
      PROVE  UNCHANGED KL!vars
  BY <1>2, SameOwners, SameAsking DEF OrphanAcquire, OrphanUnlock, KL!vars
<1>3. ASSUME NEW p \in Proc, Step(p)
      PROVE  KL!Next \/ UNCHANGED KL!vars
  <2>1. CASE LockRegister(p) \/ TryLockRegister(p)
    BY <2>1, AskRefines DEF LockRegister, TryLockRegister
  <2>2. CASE LockAcquired(p)
    BY <2>2, GrantRefines DEF LockAcquired, Goto
  <2>3. CASE TryLockMutex(p)
    <3>1. CASE pc' = [pc EXCEPT ![p] = "held"]
      BY <2>3, <3>1, GrantRefines DEF TryLockMutex
    <3>2. CASE pc' = [pc EXCEPT ![p] = "tryFail"]
      BY <2>3, <3>2, QuietStep DEF TryLockMutex, TypeOK, AskingAt
    <3> QED BY <2>3, <3>1, <3>2 DEF TryLockMutex, Goto
  <2>4. CASE LockDrain(p) \/ TryLockUnregister(p)
    BY <2>4, RefuseRefines DEF LockDrain, TryLockUnregister
  <2>5. CASE Unlock(p)
    BY <2>5, ReleaseRefines
  <2>6. CASE HelperAcquire(p)
    BY <2>6, SameOwners, SameAsking DEF HelperAcquire, KL!vars
  <2>7. CASE LockCtxDone(p)
    BY <2>7, QuietStep DEF LockCtxDone, Goto, TypeOK, AskingAt
  <2>8. CASE LockUnregister(p)
    BY <2>8, QuietStep DEF LockUnregister, Goto, TypeOK, AskingAt
  <2>9. CASE UnlockMutex(p) \/ IsLockedUnlock(p)
    BY <2>9, QuietStep DEF UnlockMutex, IsLockedUnlock, Return, Goto, TypeOK, AskingAt
  <2>10. CASE IsLockedLookup(p)
    BY <2>10, QuietStep DEF IsLockedLookup, Goto, TypeOK, AskingAt
  <2>11. CASE IsLockedProbe(p)
    BY <2>11, QuietStep DEF IsLockedProbe, Return, Goto, TypeOK, AskingAt
  <2> QED BY <1>3, <2>1, <2>2, <2>3, <2>4, <2>5, <2>6, <2>7, <2>8, <2>9, <2>10,
             <2>11 DEF Step
<1> QED BY <1>1, <1>2, <1>3 DEF Next

\* The lock implements the abstract lock its interface describes.
THEOREM Refinement == Spec => ImplementsKeyLock
<1>1. Init => KL!Init
  BY DEF Init, KL!Init, OwnerOf, AskedBy, Owners, AskingAt
<1>2. IInv /\ IInv' /\ [Next]_vars => [KL!Next]_(KL!vars)
  BY StepRefines
<1> QED BY <1>1, <1>2, Inductive, PTL DEF Spec, ImplementsKeyLock, KL!Spec
=============================================================================
