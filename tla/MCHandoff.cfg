SPECIFICATION FairSpec
CONSTANTS
    Monitor = Monitor
    None = None
    x = x
    y = y
    Clients = {c1}
    Listings = {x, y}
    Contents <- MCContents
    MaxLoads = 2
    MaxFaults = 1
    MaxCrashes = 1
INVARIANTS HandoffInductive ReadyIsRecorded VisitsAreSpaced AnalysisFollowsCapture
PROPERTIES PauseStopsCapture ChangesAreRelative
PROPERTIES RequestsEnd DuePageIsChecked FailedAnalysisIsRepeated
CHECK_DEADLOCK FALSE
