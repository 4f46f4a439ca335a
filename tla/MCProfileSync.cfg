SPECIFICATION LiveSpec
CONSTANTS
  v1 = v1
  v2 = v2
  v3 = v3
  Versions = {v1, v2, v3}
  NoVersion = NoVersion
  Disabled = Disabled
  DnsOf <- DnsSection
  Loadable <- Good
  NoFile = NoFile
  Torn = Torn
  Down = Down
  Syncs = {loop, register}
  Loop = loop
  Setups <- Usual
INVARIANTS TypeOK OnlyLoadableActive HashRaisedAfterFiles
PROPERTIES FailedApplyKeepsActive Converges
CHECK_DEADLOCK TRUE
