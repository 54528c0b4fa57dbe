SPECIFICATION Spec
CONSTANTS
    Scheduler = sch
    Others = {}
    None = none
    Stages <- TwoStages
    MaxAttempts = 2
    LockOutlives = TRUE
    RunOnStart = FALSE
    CatchUp = TRUE
    MaxTime = 2
    MaxRuns = 3
    MaxFaults = 0
    MaxOutages = 0
    MaxKills = 1
PROPERTY CatchesUp
CHECK_DEADLOCK FALSE
