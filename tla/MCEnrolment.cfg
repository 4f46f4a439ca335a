SPECIFICATION AgentLiveSpec
CONSTANTS
  a1 = a1
  a2 = a2
  t1 = t1
  Tokens = {t1, t2}
  Nodes = {n1, n2}
  NoToken = NoToken
  Agents <- MCAgents
  Threads <- MCThreads
  FlagToken <- MCFlagToken
  NoNode = NoNode
  Refused = Refused
  AgentSaves = {TRUE}
INVARIANTS AgentTypeOK TokenServesOneAgent MembersAccountedFor
PROPERTIES TokenGetsUsed DeletionIsShown
CHECK_DEADLOCK TRUE
