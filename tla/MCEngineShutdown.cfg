\* The same instance: main closes the queue while the control goroutine may still submit.
CONSTANTS
  NumberOfSessions = 2
  workerCount = 2
  BufferPerWorker = 1
  Job = {0, 1}  NoJob = NoJob
  MaxRounds = 3
  Reader <- MCReader
  Proxy = {p, q, bad}  Malformed = {bad}  Direct = Direct
  ProxyFiles <- MCProxyFiles
  p = p  q = q  bad = bad
SPECIFICATION Spec
INVARIANT NoSendOnClosed
