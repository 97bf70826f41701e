SPECIFICATION Spec
CONSTANTS
  Ids = {vm1, vm2}
  Clients = {c1}
  Runs = {r1, r2}
  Configs = {k1}
  None = None
  Failing = {"create", "delete"}
  TornIo = FALSE
  MaxPolls = 2
  MaxCrashes = 1
SYMMETRY Symmetry
INVARIANTS
  RunningHasTask
PROPERTY RanStaysRan
