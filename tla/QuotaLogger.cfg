SPECIFICATION FairSpec
CONSTANTS
  a = a
  b = b
  NoQuota = NoQuota
  Ids <- TwoIds
  Quota <- TwoQuotas
  Sizes = {1, 2}
  DamageKinds = {"torn"}
  MaxInitial = 1
  MaxCounted = 2
  MaxFaults = 2
  MaxMonth = 1
INVARIANTS
  TypeOK
  CountersBracketed
  QuotaEnforced
PROPERTIES
  ImplementsDurableCounter
  EventuallyDurable
CHECK_DEADLOCK FALSE
