SPECIFICATION Spec
CONSTANTS
  Tokens = {t1, t2}
  Nodes = {n1}
  Requests = {r1, r2}
  NoToken = NoToken
  SaveOutcomes = {TRUE}
  CliRuns = 1
INVARIANT IssuedTokenHonoured
CHECK_DEADLOCK TRUE
