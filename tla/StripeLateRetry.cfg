SPECIFICATION BillingSpec
CONSTANTS
  s1 = s1
  s2 = s2
  free = free
  starter = starter
  pro = pro
  Subs = {s1, s2}
  Plans = {free, starter, pro}
  FreePlan = free
  SoldAs <- TwoTiers
  Loops = {l1}
  MaxEvents = 3
  BillingFaults = {"reorder", "activate"}
INVARIANT CancelledIsFree
CHECK_DEADLOCK FALSE
