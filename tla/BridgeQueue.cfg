CONSTANTS
  c1 = c1
  k1 = k1
  k2 = k2
  Computers = {c1}
  Keys = {k1, k2}
  Soft = {k2}
  None = None
  TheApp = TheApp
  Contents = {"sign"}
  Pressed = {"sign"}
  Asked = {"sign"}
  MaxAsks = 1
  MaxReports = 2
  MaxApp = 1
  MaxTurns = 1
  Cap = 3
  Ticks = {0, 10, 20}
  Runs <- MCRuns
SPECIFICATION MCSpec
INVARIANTS HoldAgrees WritesInsideTheHold LeaksHaveAReason
PROPERTIES AppGetsTheKey FifoSpec
CHECK_DEADLOCK FALSE
