CONSTANTS
    h1 = h1
    h2 = h2
    h3 = h3
    None = None
    Listings = {h1, h2, h3}
    Settings <- MCSettings
    QualityCases <- MCQualityCases
    MaxAttempts = 2
    MinItems = 1
    MinRatio = 50
    MaxChanges = 2
    MaxRuns = 2
    MarketConfig <- MCMarketConfig
    ValuationConfig <- MCValuationConfig
    FutureConfig <- MCFutureConfig
    DecisionConfig <- MCDecisionConfig
    Now = 1000
    Starts <- MCStarts
    EvidenceCases <- MCEvidenceCases
    MetroOf <- MCMetroOf
    PlaceOf <- MCPlaceOf
    Asks = {20000, 36000}
    MaxBaselineRuns = 2
    MaxAssessments = 2
SPECIFICATION Spec
INVARIANTS AskIsNotUsed
CHECK_DEADLOCK FALSE
