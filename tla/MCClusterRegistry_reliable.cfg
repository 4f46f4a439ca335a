SPECIFICATION LiveSpec
CONSTANTS
  Tokens = {t1, t2}
  Nodes = {n1, n2}
  Requests = {r1, r2}
  NoToken = NoToken
  SaveOutcomes = {TRUE}
  CliRuns = 0
INVARIANTS TypeOK SingleUse IssuedTokenHonoured EnrolledNodeKept
PROPERTIES ImplementsContract SilentGoesOffline
CHECK_DEADLOCK TRUE
