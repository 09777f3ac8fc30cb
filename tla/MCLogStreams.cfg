\* Two loggers and two streams that come back; a ring of two entries and channels of one, so
\* that both overflow.
CONSTANTS
  Logger = {p1, p2}
  Stream = {s1, s2}
  MaxLogs = 2  ChanCap = 1
  MaxEntries <- MCMaxEntries
SPECIFICATION Spec
INVARIANTS TypeOK SentInOrder LostOnlyAsKnown
PROPERTY AddLogReturns
