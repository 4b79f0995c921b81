SPECIFICATION FairSpec
CONSTANTS
  Enforcers = {e1, e2}
  Guards = {}
  Admins = {m1}
  Quotas = {1, 2}
  MaxBusy = 2
  MaxCount = 2
  MaxEvents = 1
PROPERTY
  ExhaustedIsLocked
CHECK_DEADLOCK FALSE
