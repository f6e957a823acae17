CONSTANTS
  c1 = c1
  k1 = k1
  k2 = k2
  Computers = {c1}
  Keys = {k1}
  Soft = {}
  None = None
  TheApp = TheApp
  Contents = {"sign"}
  Pressed = {"sign"}
  Asked = {"sign"}
  MaxAsks = 1
  MaxReports = 2
  MaxApp = 1
  MaxTurns = 0
SPECIFICATION VBSpec
INVARIANT AppAnswersStayHome

CHECK_DEADLOCK FALSE
