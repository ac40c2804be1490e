CONSTANTS
  c1 = c1
  c2 = c2
  Calls = {c1, c2}
  Instances = {a, b}
  Deployments <- MCDeployments
  Menu <- MCMenu
SPECIFICATION FairSpec
CHECK_DEADLOCK FALSE
INVARIANTS TypeOK NoticesAreOwn LossIsSaid CutIsReal FallbackIsSaid ErrorHasCause WriteReportIsTrue
PROPERTIES EveryCallSettles
