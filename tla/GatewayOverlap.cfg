SPECIFICATION GatewaySpec
CONSTANTS
  free = free
  starter = starter
  Pool = {p1, p2}
  Loops = {l1}
  Plans = {free, starter}
  FreePlan = free
  RunsPerMonth <- SmallCaps
  Faults = {"plan", "load", "event", "crash"}
  Minters = {m1, m2}
  MaxActiveKeys = 1
  PageSize = 2
  MaxKeys = 3
SYMMETRY ThreadSymmetry
INVARIANTS FiniteMonthlyCap ListedKeysCapped
PROPERTIES ImplementsQuota RevokedKeysStayOut
