SPECIFICATION Spec
CONSTANTS
  Ids = {vm1}
  Clients = {c1, c2}
  Runs = {r1, r2}
  Configs = {k1}
  None = None
  Failing = {"start", "exit", "delete"}
  TornIo = TRUE
  MaxPolls = 2
  MaxCrashes = 1
SYMMETRY Symmetry
INVARIANTS
  TypeOK
  NoOrphan
  SerialTracksRun
PROPERTY ImplementsLifecycle
