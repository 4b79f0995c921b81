SPECIFICATION Spec
CONSTANTS
  Users = {u1, u2}
  Passwords = {p1, p2}
  None = None
  Quotas = {0, 1}
  MaxCount = 1
  MaxDamage = 1
SYMMETRY Symmetry
CONSTRAINT SmallOnceDamaged
INVARIANTS
  TypeOK
  ServedAsDecided
  PasswordHasOneOwner
  ReleasedLeavesNoCounter
  CounterFollowsAccount
  BilledOnce
CHECK_DEADLOCK FALSE
