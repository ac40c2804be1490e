CONSTANTS
  Calls = {c1, c2, c3}
  MaxQueue = 2
  MaxRestarts = 1
  NoProc = NoProc
SPECIFICATION Spec
SYMMETRY CallSymmetry
CHECK_DEADLOCK FALSE
INVARIANTS TypeOK TimersMatchPending NoStrandedCall SlotIsTheProcess QueueBound OwnRows
PROPERTIES EachLossCountedOnce LateExitIsHarmless ImplementsService
