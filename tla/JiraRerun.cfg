SPECIFICATION Spec
CONSTANTS
  Controls = {cA}
  Material = {cA}
  Keys = {k1, k2}
  Schedulers = {tick}
  Clickers = {click}
  Users = {}
  Faults = {}
  None = None
INVARIANT NeverDoubleFiles
