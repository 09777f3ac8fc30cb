\* The interface's "a no-op if the key is not currently locked", for one stray Unlock.
CONSTANTS
  Proc = {p1, p2}
  Key = {k1}
  Mutex = {m1, m2}
  Patient = {}
  MaxOrphans = 1
  NoKey = NoKey  NoMutex = NoMutex  Free = Free  Orphan = Orphan
SPECIFICATION StraySpec
INVARIANT NoFatalUnlock
