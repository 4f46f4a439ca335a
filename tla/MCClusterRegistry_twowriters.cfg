SPECIFICATION Spec
CONSTANTS
  Tokens = {t1, t2}
  Nodes = {n1}
  Requests = {r1, r2}
  NoToken = NoToken
  SaveOutcomes = {TRUE, FALSE}
  CliRuns = 1
SYMMETRY Interchangeable
INVARIANT RevokedStaysRevoked
PROPERTY NoReuseInOneLifetime
CHECK_DEADLOCK TRUE
