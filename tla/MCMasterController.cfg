\* Two broadcasts, a machine that reconnects and a second machine.
CONSTANTS
  b1 = b1  b2 = b2  n1 = n1  n2 = n2
  pc1 = pc1  pc2 = pc2  s1 = s1  s2 = s2  t1 = t1
  Broadcast = {b1, b2}
  Name = {n1, n2}
  CookieNames <- MCCookieNames
  Stream = {s1, s2, t1}
  PC = {pc1, pc2}
  pcID <- MCpcID
  Earlier <- MCEarlier
  Leaving = {s1, s2}
  ChanCap = 1
  NoCookie = NoCookie  NoStream = NoStream
SPECIFICATION Spec
INVARIANTS TypeOK SubscriberMissesNothing VersionCovers NoClosedSubscriber
PROPERTIES BroadcastReturns StopReturns
\* Every call may be over and every stream closed.
CHECK_DEADLOCK FALSE
