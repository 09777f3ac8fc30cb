\* Two sessions, so two workers; a queue of two; three rounds fill it and block Submit.
CONSTANTS
  NumberOfSessions = 2
  workerCount = 2
  BufferPerWorker = 1
  Job = {0, 1}  NoJob = NoJob
  MaxRounds = 3
  Reader <- MCReader
  Proxy = {p, q, bad}  Malformed = {bad}  Direct = Direct
  ProxyFiles <- MCProxyFiles
  p = p  q = q  bad = bad
SPECIFICATION Spec
INVARIANTS TypeOK NoUseAfterClose SnapshotsAddUp DispatchBalanced ProxiesSpread
PROPERTIES ImplementsJobQueue ShutdownEnds
