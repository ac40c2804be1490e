CONSTANTS
  N = 2
  Others = {elsewhere}
  Calls = {c1, c2}
  Refreshers = {c2}
  Ttl = 2
  NoNode = NoNode
SPECIFICATION Spec
CHECK_DEADLOCK FALSE
INVARIANTS FailoverSeenInTime
