SPECIFICATION FairSpec
CONSTANTS
  Users = {a}
  Limited = {a}
  Enforcers = {e1}
  Guards = {g1}
  Admins = {m1}
  MaxEvents = 2
INVARIANTS
  TypeOK
  ServerIsCurrent
PROPERTY
  ConfConverges
CHECK_DEADLOCK FALSE
