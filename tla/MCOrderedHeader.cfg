\* Two lists, five calls: three entries, a copy, and a change after it.
CONSTANTS
  h1 = h1  h2 = h2  lower = lower  upper = upper  other = other
  host = host  accept = accept  v1 = v1  v2 = v2
  Var = {h1, h2}
  Key = {lower, upper, other}
  Header = {accept, host}
  Canonical <- MCCanonical
  Value = {v1, v2}
  NoEntry = NoEntry
  MaxLen = 3
  MaxCalls = 5
SPECIFICATION Spec
INVARIANTS TypeOK NothingDiscarded
PROPERTY CallsAsPromised
SYMMETRY MCSymmetry
\* After MaxCalls calls there is no further one.
CHECK_DEADLOCK FALSE
