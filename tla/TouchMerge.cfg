CONSTANTS
  Cap = 2
  Ticks = {10}
  Runs <- ShortRuns
  Holds <- TwoHolds
  MaxHolds = 2
  MaxRuns = 0
  Threshold = 2
  RELEASE_ROUNDS = 4
SPECIFICATION TSSpec
INVARIANT NothingLostByReturning
CHECK_DEADLOCK FALSE
