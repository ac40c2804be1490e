CONSTANTS
  N = 2
  Others = {elsewhere}
  Calls = {c1, c2}
  Refreshers = {c2}
  Ttl = 2
  NoNode = NoNode
SPECIFICATION FairSpec
CHECK_DEADLOCK FALSE
INVARIANTS TypeOK RefreshIsCurrent OneGoodNodeSuffices
PROPERTIES StaleEntryGoes
