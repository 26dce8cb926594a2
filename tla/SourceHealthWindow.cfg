\* Three runs, a window of two for the endpoint and of three for the panel.
SPECIFICATION Spec
CONSTANTS
    Window = 2
    PanelWindow = 3
    StaleAfter = 1
    DegradedBanRate = 20
    FailBanRate = 50
    Traffic <- AllTraffic
    MaxRuns = 3
    MaxNow = 4
INVARIANTS TypeOK HealthyIsFresh StaleIsOld PanelAgrees
PROPERTIES OnlyCommitsHeal
CHECK_DEADLOCK FALSE
