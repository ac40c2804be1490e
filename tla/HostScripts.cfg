CONSTANTS
  Calls = {c1, c2}
  Timeout = 10
  Reserve = 5
  MinBudget = 5
  Margin = 4
  BootMax = 1
  StepMax = 1
  PollMax = 1
  Hour = 11
  Tool = "evt"
  Measured = {c1}
  NoCall = NoCall
SPECIFICATION Spec
CHECK_DEADLOCK FALSE
INVARIANTS TypeOK ScriptFileIsCleanedUp TimeoutLeavesNoJob EventsAreNew
PROPERTIES SweepSparesLiveJobs
