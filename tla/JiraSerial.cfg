SPECIFICATION FairSpec
CONSTANTS
  Controls = {cA, cB}
  Material = {cA, cB}
  Keys = {k1, k2}
  Schedulers = {tick}
  Clickers = {}
  Users = {}
  Faults = {"jira"}
  None = None
INVARIANT AlertedOnce
PROPERTIES PersistentGapIsFiled DoneIsNoticed
