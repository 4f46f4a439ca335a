SPECIFICATION Spec
CONSTANTS
  Panels = {p1, p2}
  Tokens = {t1, t2}
  Nodes = {n1, n2, n3}
  Requests = {r1, r2, r3}
  NoToken = NoToken
  NoPanel = NoPanel
  NoNode = NoNode
  Outcomes = {"done", "failed", "unanswered"}
SYMMETRY Interchangeable
INVARIANTS TypeOK SingleUseUnlessDisputed RevokedStaysRevoked
PROPERTY KeepsContractUnlessDisputed
CHECK_DEADLOCK FALSE
