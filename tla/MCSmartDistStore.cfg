SPECIFICATION Spec
CONSTANTS
  Nodes = {n1, n2}
  Profiles = {f1, f2}
  Bodies = {b1}
  NoProfile = NoProfile
  NoBody = NoBody
  Requests = {r1, r2}
  IdLists <- DistinctLists
  MaxHistory = 2
  SaveOutcomes = {TRUE, FALSE}
SYMMETRY Interchangeable
INVARIANTS TypeOK ReferentialIntegrity GrantedAssignmentsKept HistoryIsChain
CHECK_DEADLOCK TRUE
