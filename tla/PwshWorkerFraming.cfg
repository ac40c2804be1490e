CONSTANTS
  Calls = {c1, c2}
  MaxQueue = 2
  MaxRestarts = 1
  NoProc = NoProc
SPECIFICATION Spec
CHECK_DEADLOCK FALSE
PROPERTIES AnswerReachesCaller
