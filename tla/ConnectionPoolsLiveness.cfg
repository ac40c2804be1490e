CONSTANTS
  Calls = {c1, c2, c3}
  Logins = {alice}
  FallbackEnabled = TRUE
  MaxFlips = 1
  NoPool = NoPool
SPECIFICATION FairSpec
CHECK_DEADLOCK FALSE
PROPERTIES RecoveryIsPickedUp
