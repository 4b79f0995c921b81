SPECIFICATION SessionsFairSpec
CONSTANTS
  Ids = {7, 8}
  MaxSessions = 2
INVARIANTS
  LiveIsReachable
  OneLivePerId
  OpenHasLoop
PROPERTIES
  StopReleasesAll
  IdleIsClosed
CHECK_DEADLOCK FALSE
