SPECIFICATION Spec
CONSTANTS
  v1 = v1
  v2 = v2
  v3 = v3
  Versions = {v1, v3}
  NoVersion = NoVersion
  Disabled = Disabled
  DnsOf <- DnsSection
  Loadable <- Good
  NoFile = NoFile
  Torn = Torn
  Down = Down
  Syncs = {loop}
  Loop = loop
  Setups <- Faultless
INVARIANT AppliedHashIsInFiles
CHECK_DEADLOCK TRUE
