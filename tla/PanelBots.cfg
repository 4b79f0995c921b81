SPECIFICATION Spec
CONSTANTS
  c1 = c1
  Rids = {r1}
  Users = {u1, u2}
  Chats = {c1}
  Tunnels = {"ssh", "xray"}
  Limits = {1, 2}
  Settings <- PublicOrPrivate
  Admin = Admin
  MaxPresses = 3
  MaxCrashes = 1
INVARIANT RemovedLeavesNoAccount
PROPERTIES WithinLimit OwnAccountsOnly ExpiredIsCleaned
CHECK_DEADLOCK FALSE
