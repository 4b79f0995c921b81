SPECIFICATION Spec
CONSTANTS
  Protos = {"ssh", "vmess"}
  Conns = {}
  Crons = {e1}
  Admins = {m1}
  Quotas = {0, 1}
  MaxBytes = 2
  MaxBusy <- BusyBound
  MaxEvents <- EventBound
INVARIANT LockedIsShutOut
CHECK_DEADLOCK FALSE
