CONSTANTS
  Requests = {r1, r2}
  MaxEdits = 1
  None = None
  Partial = Partial
  Ticker = Ticker
  Tmp = Tmp
  Mirror = Mirror
  Setups <- JointSetups
SPECIFICATION Spec
INVARIANT EdgeInstallsWhole
CHECK_DEADLOCK TRUE
