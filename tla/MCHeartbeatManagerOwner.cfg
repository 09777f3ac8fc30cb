\* The same instance, for the README's claim that a claimed slot is owned.
CONSTANTS
  c1 = c1  c2 = c2  s1 = s1  s2 = s2  r1 = r1  r2 = r2  r3 = r3  n1 = n1  n2 = n2
  Caller = {c1, c2}
  Loop = Loop
  Session = {s1, s2}
  sessionIDs <- MCsessionIDs
  Writer <- MCWriter
  Response = {r1, r2, r3}
  Name = {n1, n2}
  CookieNames <- MCCookieNames
  Bearer = {r1, r3}
  NoSession = NoSession  NoState = NoState  NoResponse = NoResponse
SPECIFICATION Spec
INVARIANT OneOwner
CHECK_DEADLOCK FALSE
