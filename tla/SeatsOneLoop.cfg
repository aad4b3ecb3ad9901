SPECIFICATION Spec
CONSTANTS
  None = None
  free = free
  pro = pro
  r1 = r1
  r2 = r2
  l1 = l1
  l2 = l2
  Plans = {free, pro}
  FreePlan = free
  MaxUsers <- SmallTeams
  Users = {u1, u2, u3}
  Tenants = {t1, t2, t3}
  Requests = {r1, r2}
  Loops = {l1}
  MaxInvites = 1
  Buyers = {t1}
  LoopOf <- SameLoop
  Faults = {"profile", "crash"}
SYMMETRY UserSymmetry
INVARIANTS TypeOK JoinsKeepSeats
PROPERTY JoinsSplitNoTeam
CHECK_DEADLOCK FALSE
