CONSTANTS
  Calls = {c1, c2}
  Logins = {alice}
  FallbackEnabled = TRUE
  MaxFlips = 1
  NoPool = NoPool
SPECIFICATION Spec
CHECK_DEADLOCK FALSE
INVARIANTS EveryResultIsWarned
