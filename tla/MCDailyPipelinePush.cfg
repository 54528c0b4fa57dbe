SPECIFICATION Spec
CONSTANTS
    Scheduler = sch
    Others = {}
    None = none
    Stages <- TwoStages
    MaxAttempts = 2
    LockOutlives = TRUE
    RunOnStart = FALSE
    CatchUp = TRUE
    MaxTime = 2
    MaxRuns = 3
    MaxFaults = 0
    MaxOutages = 1
    MaxKills = 0
INVARIANT NeverPushedTwice
CHECK_DEADLOCK FALSE
