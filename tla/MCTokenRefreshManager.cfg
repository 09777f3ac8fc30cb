\* A check every two seconds, answers within one, at most one failure in a row.
CONSTANTS
  a1 = a1  h1 = h1  c1 = c1
  Caller = {c1}
  AutoRefresh = {a1}
  Heartbeat = {h1}
  Interval <- MCInterval
  refreshBefore = 6
  Latency = 1
  Life = 7
  Expiry = {8}
  MaxFailures = 1
  MaxTime = 9
SPECIFICATION Spec
INVARIANTS TypeOK RenewedInTime MalformedReplaced OneLateRequest
PROPERTY StopEndsLoops
\* The clock stops at MaxTime.
CHECK_DEADLOCK FALSE
