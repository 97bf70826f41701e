SPECIFICATION FairSpec
CONSTANTS
    MaxConns = 2
    VmConfigs <- MCVmConfigs
INVARIANT QuietWhenStopped
PROPERTY StopEnds
CHECK_DEADLOCK FALSE
