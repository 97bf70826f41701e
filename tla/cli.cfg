SPECIFICATION Spec
CONSTANTS
    Data <- MCData
    MetricsServed = TRUE
    MaxCommands = 2
    MaxFetches = 3
    MaxLines = 3
INVARIANTS ActionsReported ScreenIsHonest TimelineReplays AnalysesAgree
CHECK_DEADLOCK FALSE
