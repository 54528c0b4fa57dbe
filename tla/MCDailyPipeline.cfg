SPECIFICATION FairSpec
CONSTANTS
    Scheduler = sch
    Others = {cron}
    None = none
    Stages <- TwoStages
    MaxAttempts = 2
    LockOutlives = TRUE
    RunOnStart = FALSE
    CatchUp = TRUE
    MaxTime = 3
    MaxRuns = 3
    MaxFaults = 1
    MaxOutages = 1
    MaxKills = 1
INVARIANTS DailyInductive OnePipeline JobsFollowTheRuns DeliveryIsFiled RestartsAreBounded DeliveredOnce
PROPERTIES EpisodesEnd LatestMovesForward ServedUnlessDisturbed
CHECK_DEADLOCK FALSE
