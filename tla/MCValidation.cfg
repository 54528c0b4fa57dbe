SPECIFICATION Spec
CONSTANTS
    None = None
    Listings = {1, 2}
    Sessions = {s1, s2}
    EntrySets <- TwoDataSets
    Dataset <- SmallDataset
    Gate <- GateOfConfig
    LabelRequests <- TwoRequests
    BlindRequests <- OneBlindRequest
    ReviewRequests <- TwoReviewRequests
    Model <- Results2
    MaxInputs = 1
    MaxAmendments = 1
SYMMETRY AnySession
INVARIANTS ValidationInductive VerdictStands
PROPERTIES KeepsTheTrial VerdictsAccumulate
CHECK_DEADLOCK FALSE
