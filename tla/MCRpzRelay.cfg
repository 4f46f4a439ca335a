SPECIFICATION LiveSpec
CONSTANTS
  a = a
  b = b
  c = c
  Domains = {a, b, c}
  Modulus = 16
  MaxVersions = 5
  SerialOf <- MCSerialOf
  Zone <- MCZone
  BootList <- MCBootList
  NoFile = NoFile
  MaxDeltas = 2
  MaxFaults = 3
  Starts <- MCStarts
INVARIANTS TypeOK RawIsAVersion PublishedTogether ClientNeverMixes
PROPERTIES SerialsOnlyAdvance RelayFollows SecondaryFollows Converges
CHECK_DEADLOCK TRUE
