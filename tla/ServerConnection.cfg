SPECIFICATION FairSpec
CONSTANTS
  Requests = {r1, r2}
  Streams = {s1, s2}
  Quota = 1
  MaxChunks = 2
  MaxKicks = 1
INVARIANTS
  TypeOK
  QuotaBoundsTraffic
  OneManager
PROPERTIES
  RelaysEnd
  ClosedReleasesAll
CHECK_DEADLOCK FALSE
