SPECIFICATION FollowUpSpec
CONSTANTS
  Controls = {cA}
  Material = {cA}
  Keys = {k1, k2}
  Schedulers = {tick}
  Clickers = {click}
  Users = {}
  Faults = {"jira", "link"}
  None = None
  RequestIds = {r1}
  People = {ann, bob}
  Servers = {a, b}
  Nobody = Nobody
  Gone = Gone
  WorkFaults = {"mail", "database", "stop"}
  Callers = {c1, c2}
  MaxHits = 2
  Window = 2
  MaxTime = 5
  free = free
  pro = pro
  Subs = {s1, s2}
  Plans = {free, pro}
  FreePlan = free
  SoldAs <- SameTier
  Loops = {l1, l2}
  MaxEvents = 3
  BillingFaults = {"reorder", "duplicate", "timeout", "activate", "ledger", "crash"}
SYMMETRY KeySymmetry
INVARIANTS NoSilentResolve NoSilentPush NobodyIsForgotten WindowIsKept SameTierIsHarmless
PROPERTIES LinksOnlyAdvance StatusFollowsTransitions
