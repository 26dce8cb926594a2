\* Three runs and a window of two.
SPECIFICATION Spec
CONSTANTS
    Window = 2
    PanelWindow = 3
    StaleAfter = 1
    DegradedBanRate = 20
    FailBanRate = 50
    Traffic <- AllTraffic
    MaxRuns = 3
    MaxNow = 4
INVARIANTS DegradedFlows
CHECK_DEADLOCK FALSE
