\* Two goroutines, the keep-alive loop, two sessions and three responses.
CONSTANTS
  c1 = c1  c2 = c2  s1 = s1  s2 = s2  r1 = r1  r2 = r2  r3 = r3  n1 = n1  n2 = n2
  Caller = {c1, c2}
  Loop = Loop
  Session = {s1, s2}
  sessionIDs <- MCsessionIDs
  Writer <- MCWriter
  Response = {r1, r2, r3}
  Name = {n1, n2}
  CookieNames <- MCCookieNames
  Bearer = {r1, r3}
  NoSession = NoSession  NoState = NoState  NoResponse = NoResponse
SPECIFICATION Spec
INVARIANTS TypeOK ClaimedOnce SoleWriterKeepsCookies
PROPERTY StopEndsLoop
\* Without a loop every caller may be idle with no session available.
CHECK_DEADLOCK FALSE
