SPECIFICATION Spec
CONSTANTS
  Protos = {"ssh", "v2raydns", "hysteria"}
  Conns = {c1}
  Crons = {e1}
  Admins = {m1}
  Quotas = {0, 1}
  MaxBytes = 2
  MaxBusy <- BusyBound
  MaxEvents <- EventBound
INVARIANTS BilledAtMostCarried SettledAsDecided
PROPERTY QuotaIsEnforced
CHECK_DEADLOCK FALSE
