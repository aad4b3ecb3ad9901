SPECIFICATION UpgradingSpec
CONSTANTS
  None = None
  free = free
  pro = pro
  r1 = r1
  r2 = r2
  l1 = l1
  l2 = l2
  Plans = {free, pro}
  FreePlan = free
  MaxUsers <- SmallTeams
  Users = {u1, u2}
  Tenants = {t1, t2}
  Requests = {r1}
  Loops = {l1}
  MaxInvites = 1
  Buyers = {t1}
  LoopOf <- OneRequest
  Faults = {}
PROPERTY LockedOutCanUpgrade
CHECK_DEADLOCK FALSE
