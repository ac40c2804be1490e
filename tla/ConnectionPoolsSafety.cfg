CONSTANTS
  Calls = {c1, c2, c3}
  Logins = {alice, bob}
  FallbackEnabled = TRUE
  MaxFlips = 2
  NoPool = NoPool
SPECIFICATION Spec
SYMMETRY PoolSymmetry
CHECK_DEADLOCK FALSE
INVARIANTS TypeOK PoolMatchesCall ClosedIsNeverServed FallbackWillRetire WarnedIffOnMaster
PROPERTIES HealthyPoolSurvivesLateEvents
