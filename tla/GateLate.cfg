CONSTANTS
  None = None
  MaxSecret = 2
  MaxDay = 0
  MaxJobs = 2
  Keystore = {TRUE}
  Users = {u1}
  Addrs = {a1}
SPECIFICATION Spec
INVARIANT SessionStands
CHECK_DEADLOCK FALSE
