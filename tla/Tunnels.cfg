SPECIFICATION Spec
CONSTANTS
  Offered = {"udp_custom"}
  MaxJobs = 3
  MaxFaults = 1
INVARIANTS FullInstallServes PurgeLeavesNothing TableHasFile RangesReachTunnel
PROPERTIES FullInstallRecovers
CHECK_DEADLOCK FALSE
ACTION_CONSTRAINT SpoiledIsPurged
