CONSTANTS
  Calls = {c1, c2}
  MaxQueue = 2
  MaxRestarts = 0
  NoProc = NoProc
SPECIFICATION FairSpec
CHECK_DEADLOCK FALSE
PROPERTIES EveryCallSettles
