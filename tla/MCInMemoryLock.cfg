\* Three goroutines, one of which never gives up, on two keys; no symmetry, for liveness.
\* Two mutexes: one that is still being unlocked, and the one made after its entry went.
CONSTANTS
  Proc = {p1, p2, p3}
  Key = {k1, k2}
  Mutex = {m1, m2}
  Patient = {p1}
  MaxOrphans = 1
  NoKey = NoKey  NoMutex = NoMutex  Free = Free  Orphan = Orphan
SPECIFICATION FairSpec
INVARIANTS TypeOK MutualExclusion EntryIffRegistered NoFatalUnlock IInv
PROPERTIES ImplementsKeyLock PatientAcquires
