SPECIFICATION Spec
CONSTANTS
  l1 = l1
  l2 = l2
  c1 = c1
  s1 = s1
  Requests = {l1, l2, c1, s1}
  Kind <- MCKind
  Domains = {d1}
  Named <- MCNamed
  Blank = Blank
  Torn = Torn
  NoFile = NoFile
  Down = Down
INVARIANTS TypeOK WholeUnlessOverlapped AckedChangesKept ListInForce
CHECK_DEADLOCK FALSE
