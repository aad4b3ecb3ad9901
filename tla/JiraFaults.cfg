SPECIFICATION Spec
CONSTANTS
  Controls = {cA}
  Material = {cA}
  Keys = {k1, k2}
  Schedulers = {tick}
  Clickers = {}
  Users = {user}
  Faults = {"jira", "timeout", "body", "link", "db", "alert", "crash"}
  None = None
SYMMETRY KeySymmetry
INVARIANTS OneLinkPerThread ResolvedWasDone
