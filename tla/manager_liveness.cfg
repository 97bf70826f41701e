SPECIFICATION FairSpec
CONSTANTS
  Ids = {vm1, vm2}
  Clients = {c1}
  Runs = {r1, r2}
  Configs = {k1}
  None = None
  Failing = {}
  TornIo = FALSE
  MaxPolls = 1
  MaxCrashes = 0
INVARIANT ConfigDurable
PROPERTIES
  StopTakesEffect
  ShutdownDrains
