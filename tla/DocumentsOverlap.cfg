SPECIFICATION Spec
CONSTANTS
  r1 = r1
  r2 = r2
  r3 = r3
  l1 = l1
  l2 = l2
  free = free
  starter = starter
  pro = pro
  Requests = {r1, r2, r3}
  Loops = {l1, l2}
  LoopOf <- MC_LoopOf
  Policies = {p1}
  Contents = {a, b}
  Plans = {free, starter, pro}
  FreePlan = free
  GenerationsTotal = 1
  DocsPerMonth <- MC_DocsPerMonth
  Faults = {"draft", "coverage", "document", "event", "crash"}
  MaxDocuments = 2
  None = None
SYMMETRY Symmetry
INVARIANTS
  MonthlyDocumentsCapped
  ChargedIsStored
  BoundedMixing
  CoverageIsBacked
