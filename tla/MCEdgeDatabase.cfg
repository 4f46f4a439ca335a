CONSTANTS
  Requests = {r1, r2}
  MaxEdits = 1
  None = None
  Partial = Partial
  Ticker = Ticker
  Tmp = Tmp
  Mirror = Mirror
  Setups <- SeparateSetups
SPECIFICATION Spec
INVARIANT TypeOK
INVARIANT PublishedComplete
INVARIANT EdgeInstallsWhole
PROPERTY MasterFollows
PROPERTY EdgeFollows
PROPERTY Converges
CHECK_DEADLOCK TRUE
