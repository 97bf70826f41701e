SPECIFICATION FairSpec
CONSTANTS
    GuestMac = "guest"
    GatewayMac = "gateway"
    GatewayIp = "gateway ip"
    Rules = {1, 2}
    Conns = {1, 2, 3}
    MaxPushes = 2
    MaxOthers = 1
    SnapLen = 100
    BodyWord = 53143
    MaxFrames <- MCMaxFrames
    MaxPackets <- MCMaxPackets
    VmConfigs <- MCVmConfigs
    GuestFrames <- MCFrames
    HostPackets <- MCPackets
INVARIANTS RelaysTracked FramesRight MetricsHonest
PROPERTY ExitDrains
CHECK_DEADLOCK FALSE
