CONSTANTS
  Cap = 2
  Ticks = {10}
  Runs <- ShortRuns
  Holds <- TwoHolds
  MaxHolds = 2
  MaxRuns = 3
  Threshold = 2
  RELEASE_ROUNDS = 4
  v1 = v1
  v2 = v2
  v3 = v3
  Values <- MCValues
  Empty = Empty
  Unreadable = Unreadable
  MaxGen = 6
  Callers = {"app", "bridge"}
  Room = 3
  MaxCalls = 3
  Nonces = {1, 2}
  SEEN_KEPT = 1
  MaxSent = 3
  MaxRestarts = 1
SPECIFICATION MCSpec
INVARIANTS HoldsStayApart HandedIsServed ReportsComeFirst DrainedIsTaken NonceAskedOnce SheetTellsTheAnswer
PROPERTIES QueueIsServed CellKept CallsEnd AsksEnd
CHECK_DEADLOCK FALSE
