SPECIFICATION FairSpec
CONSTANTS
  MaxVcpus = 2
  DevicesPanic = TRUE
INVARIANTS
  NoHungThreads
  ReasonIsTrue
PROPERTIES
  StopEndsVm
  ExitEndsVm
CHECK_DEADLOCK FALSE
